---- MODULE Spec2Model ----
(***************************************************************************)
(* Verification model of the irontask synchronization engine: the server   *)
(* store and its push / pull / clear handlers (server/sync.go and          *)
(* sql/server/queries.sql), the replica-local store (the sqlc queries of   *)
(* the client) and the sync client (Sync, pushChanges, pullChanges).       *)
(*                                                                         *)
(* One user is modelled, with two replicas.  Every HTTP exchange is split  *)
(* into the step that the server serves and the step in which the client   *)
(* applies the response, so that UI writes and the other replica           *)
(* interleave with a running sync as they do in the program.               *)
(***************************************************************************)
EXTENDS Integers, Sequences, FiniteSets, TLC

\* ------------------------------------------------------------------------
\* Bounds of the exploration
\* ------------------------------------------------------------------------
MaxClock == 1
MaxWrites == 3
\* the exploration with force-push syncs
MaxForceWrites == 2
MaxClears == 1
\* the exploration with projects named alike
MaxWorkWrites == 1
\* the exploration with two users: pushes of a user stop at this version
MaxUserVersion == 3
\* the exploration of the conflict queue: later writes to task t2, and the
\* clock's last value
MaxQueueWrites == 2
MaxQueueClock == 2
\* the exploration with failing requests
MaxFailWrites == 1
MaxFailures == 2
\* debouncedSync goroutines alive at a time
MaxTimers == 2

Replicas == {"A", "B"}
TaskIds == {"t1"}
Contents == {"a", "b"}
\* the replica whose UUID generator yields the id (replicas are symmetric)
TaskOwner(id) == "A"

\* ------------------------------------------------------------------------
\* Values
\* ------------------------------------------------------------------------
\* sync_version IS NULL in the local store ("dirty")
NULL == 0 - 1
\* Go's zero time.Time, the value of clientTime when nothing was parsed
ZeroTime == 0 - 1
\* updated_at of the seeded inbox row: SQLite datetime('now') yields
\* 'YYYY-MM-DD HH:MM:SS', which is not an RFC3339 string
SqliteNow == 0 - 2
\* clock ticks per second
TicksPerSecond == 1

PriorityLow == 4
\* AutoSync.debounceTime and AutoSync.pollInterval, in seconds
DebounceTime == 2
PollInterval == 30
InboxColor == "#6C757D"
DefaultColor == "#4ECDC4"

Max(a, b) == IF a > b THEN a ELSE b

\* time.Now().Format(time.RFC3339) followed by time.Parse: the string keeps
\* whole seconds only
FormatRFC3339(t) == (t \div TicksPerSecond) * TicksPerSecond

\* time.Parse(time.RFC3339, s) as used by the push handler: the empty string
\* is not parsed and a malformed string leaves clientTime at the zero time
ParseClientTime(s) == IF s = SqliteNow \/ s = ZeroTime THEN ZeroTime ELSE s

IsZero(t) == t = ZeroTime

\* serverUpdatedAt.After(clientTime)
After(t, u) == t > u

\* byte strings are tuples; base64 text is a record around the bytes
NoBytes == << >>
B64Encode(bytes) == [b64 |-> bytes]
B64Decode(text) == text.b64
EmptyString == B64Encode(NoBytes)

\* json.Marshal(map{"content": c}) and the matching json.Unmarshal
JsonContent(c) == <<"content", c>>
\* mutant: the JSON key is not found
UnmarshalContent_NoKey(bytes) == ""
UnmarshalContent(bytes) ==
    IF Len(bytes) = 2 /\ bytes[1] = "content" THEN bytes[2] ELSE ""

\* json.Marshal(map{"name": n, "color": c}) and the matching json.Unmarshal
JsonProject(n, c) == <<"name", n, "color", c>>
UnmarshalProjectName(bytes) ==
    IF Len(bytes) = 4 /\ bytes[1] = "name" THEN bytes[2] ELSE ""
UnmarshalProjectColor(bytes) ==
    IF Len(bytes) = 4 /\ bytes[3] = "color" THEN bytes[4] ELSE ""

\* a table is a function from the ids of its rows to the rows
Put(table, id, row) ==
    [x \in (DOMAIN table) \cup {id} |-> IF x = id THEN row ELSE table[x]]
EmptyTable == [x \in {} |-> 0]

\* SELECT COALESCE(MAX(sync_version), 0) FROM <table> WHERE user_id = $1
MaxSyncVersion(table) ==
    IF DOMAIN table = {} THEN 0
    ELSE CHOOSE v \in {table[x].sync_version : x \in DOMAIN table} :
            \A x \in DOMAIN table : table[x].sync_version <= v

\* some enumeration of a finite set (SQL returns rows in no particular order)
RECURSIVE SeqOfSet(_)
SeqOfSet(S) ==
    IF S = {} THEN << >>
    ELSE LET x == CHOOSE y \in S : TRUE IN <<x>> \o SeqOfSet(S \ {x})

\* ------------------------------------------------------------------------
\* Wire format
\* ------------------------------------------------------------------------
\* SyncItem, with the zero value of Go for every field that is not set
SyncItem(clientId, type) ==
    [client_id |-> clientId, type |-> type, slug |-> "", name |-> "",
     project_id |-> "", encrypted_data |-> EmptyString,
     encrypted_content |-> EmptyString, status |-> "", priority |-> 0,
     due_date |-> "", sync_version |-> 0, deleted |-> FALSE,
     client_updated_at |-> ZeroTime]

ConflictItem(item, serverItem) ==
    [client_id |-> item.client_id, type |-> item.type,
     server_version |-> serverItem.sync_version,
     server_data |-> serverItem, client_data |-> item]

\* ------------------------------------------------------------------------
\* Server store (PostgreSQL), rows of the one modelled user
\* ------------------------------------------------------------------------
\* UpsertProject: the version is MAX(sync_version) + 1 over the user's
\* projects; ON CONFLICT (user_id, client_id) leaves color alone;
\* UNIQUE(user_id, slug) rejects a second row with the same slug
UpsertProject(projects, clientId, slug, name, color, data, deleted, cua, t) ==
    LET version == MaxSyncVersion(projects) + 1
        clash == \E x \in DOMAIN projects :
                    x # clientId /\ projects[x].slug = slug
        row == [slug |-> slug, name |-> name,
                color |-> IF clientId \in DOMAIN projects
                          THEN projects[clientId].color ELSE color,
                encrypted_data |-> data, sync_version |-> version,
                deleted |-> deleted, updated_at |-> t,
                client_updated_at |-> cua]
    IN IF clash THEN [ok |-> FALSE, table |-> projects, version |-> 0]
       ELSE [ok |-> TRUE, table |-> Put(projects, clientId, row),
             version |-> version]

\* UpsertTask: the version is MAX(sync_version) + 1 over the user's tasks
UpsertTask(tasks, clientId, projectId, content, status, priority, dueDate, deleted, cua, t) ==
    LET version == MaxSyncVersion(tasks) + 1
        row == [project_id |-> projectId, encrypted_content |-> content,
                status |-> status, priority |-> priority,
                due_date |-> dueDate, sync_version |-> version,
                deleted |-> deleted, updated_at |-> t,
                client_updated_at |-> cua]
    IN [ok |-> TRUE, table |-> Put(tasks, clientId, row), version |-> version]

\* GetProjectsChanged / GetTasksChanged: WHERE sync_version > $2
GetProjectsChanged(projects, since) ==
    {x \in DOMAIN projects : projects[x].sync_version > since}
\* mutant: soft-deleted rows are filtered out
GetTasksChanged_LiveOnly(tasks, since) ==
    {x \in DOMAIN tasks : tasks[x].sync_version > since /\ ~tasks[x].deleted}
GetTasksChanged(tasks, since) ==
    {x \in DOMAIN tasks : tasks[x].sync_version > since}

\* the row of a server project / task as the handlers put it on the wire
ServerProjectItem(projects, id) ==
    [SyncItem(id, "project") EXCEPT
        !.slug = projects[id].slug, !.name = projects[id].name,
        !.encrypted_data = B64Encode(projects[id].encrypted_data),
        !.sync_version = projects[id].sync_version,
        !.deleted = projects[id].deleted]
ServerTaskItem(tasks, id) ==
    [SyncItem(id, "task") EXCEPT
        !.project_id = tasks[id].project_id,
        !.encrypted_content = B64Encode(tasks[id].encrypted_content),
        !.status = tasks[id].status, !.priority = tasks[id].priority,
        !.due_date = tasks[id].due_date,
        !.sync_version = tasks[id].sync_version,
        !.deleted = tasks[id].deleted]

\* maxVersion of handleSyncPull
RECURSIVE MaxItemVersion(_, _)
MaxItemVersion(items, start) ==
    IF items = << >> THEN start
    ELSE MaxItemVersion(Tail(items), Max(start, Head(items).sync_version))

\* mutant: maxVersion starts at 0 instead of the since value
handleSyncPull_FromZero(projects, tasks, since) ==
    LET ps == SeqOfSet(GetProjectsChanged(projects, since))
        ts == SeqOfSet(GetTasksChanged(tasks, since))
        items == [i \in 1..Len(ps) |-> ServerProjectItem(projects, ps[i])]
                 \o [i \in 1..Len(ts) |-> ServerTaskItem(tasks, ts[i])]
    IN [items |-> items, sync_version |-> MaxItemVersion(items, 0)]
\* handleSyncPull: the changed projects, then the changed tasks
handleSyncPull(projects, tasks, since) ==
    LET ps == SeqOfSet(GetProjectsChanged(projects, since))
        ts == SeqOfSet(GetTasksChanged(tasks, since))
        items == [i \in 1..Len(ps) |-> ServerProjectItem(projects, ps[i])]
                 \o [i \in 1..Len(ts) |-> ServerTaskItem(tasks, ts[i])]
    IN [items |-> items, sync_version |-> MaxItemVersion(items, since)]

\* the conflict test of handleSyncPush on the row GetTaskForConflict /
\* GetProjectForConflict returned
HasConflict(table, item) ==
    LET clientTime == ParseClientTime(item.client_updated_at)
    IN /\ item.client_id \in DOMAIN table
       /\ ~IsZero(clientTime)
       /\ After(table[item.client_id].updated_at, clientTime)

\* the type switch of handleSyncPush: decode, defaults, upsert, and the
\* item with its new version appended to updated; a failed upsert is logged
\* and the item dropped.  st = [projects, tasks, updated, conflicts]
UpsertItem(st, item, t) ==
    LET clientTime == ParseClientTime(item.client_updated_at)
    IN
    IF item.type = "project"
    THEN LET slug == IF item.slug = "" THEN item.client_id ELSE item.slug
             name == IF item.name = "" THEN slug ELSE item.name
             res == UpsertProject(st.projects, item.client_id, slug, name, "",
                                  B64Decode(item.encrypted_data), item.deleted,
                                  clientTime, t)
         IN IF res.ok
            THEN [st EXCEPT !.projects = res.table,
                     !.updated = Append(@,
                        [item EXCEPT !.sync_version = res.version])]
            ELSE st
    ELSE IF item.type = "task"
    THEN LET status == IF item.status = "" THEN "process" ELSE item.status
             res == UpsertTask(st.tasks, item.client_id, item.project_id,
                               B64Decode(item.encrypted_content), status,
                               item.priority, item.due_date, item.deleted,
                               clientTime, t)
         IN [st EXCEPT !.tasks = res.table,
                !.updated = Append(@,
                    [item EXCEPT !.sync_version = res.version])]
    ELSE st

\* the conflict branch of handleSyncPush: the ConflictItem with the full
\* current server row
AppendConflict(st, item) ==
    [st EXCEPT !.conflicts = Append(@, ConflictItem(item,
        IF item.type = "task" THEN ServerTaskItem(st.tasks, item.client_id)
        ELSE ServerProjectItem(st.projects, item.client_id)))]

ItemHasConflict(st, item) ==
    \/ item.type = "task" /\ HasConflict(st.tasks, item)
    \/ item.type = "project" /\ HasConflict(st.projects, item)

\* mutant: the conflict is reported but the upsert is not skipped
PushItem_NoContinue(st, item, t) ==
    IF ItemHasConflict(st, item)
    THEN UpsertItem(AppendConflict(st, item), item, t)
    ELSE UpsertItem(st, item, t)

\* one iteration of the item loop of handleSyncPush; t is NOW()
PushItem(st, item, t) ==
    IF ItemHasConflict(st, item)
    THEN AppendConflict(st, item)
    ELSE UpsertItem(st, item, t)

\* handleSyncPush: the items in the order received
RECURSIVE PushLoop(_, _, _)
PushLoop(st, items, t) ==
    IF items = << >> THEN st
    ELSE PushLoop(PushItem(st, Head(items), t), Tail(items), t)

handleSyncPush(projects, tasks, items, t) ==
    PushLoop([projects |-> projects, tasks |-> tasks,
              updated |-> << >>, conflicts |-> << >>], items, t)

\* ------------------------------------------------------------------------
\* Local store (SQLite) of one replica
\* ------------------------------------------------------------------------
\* the inbox row that migrationCreateProjects seeds: no sync_version column
\* in the INSERT, so it is NULL
InboxRow ==
    [slug |-> "inbox", name |-> "Inbox", color |-> InboxColor,
     updated_at |-> SqliteNow, deleted_at |-> FALSE, sync_version |-> NULL]

\* CreateProject: INSERT without sync_version; the primary key rejects an
\* id that is present (soft-deleted rows included)
CreateProject(projects, id, slug, name, color, t) ==
    IF id \in DOMAIN projects THEN projects
    ELSE Put(projects, id,
             [slug |-> slug, name |-> name, color |-> color,
              updated_at |-> t, deleted_at |-> FALSE, sync_version |-> NULL])

\* GetProject / GetTask: WHERE id = ? AND deleted_at IS NULL
GetProject(projects, id) == id \in DOMAIN projects /\ ~projects[id].deleted_at
GetTask(tasks, id) == id \in DOMAIN tasks /\ ~tasks[id].deleted_at

OverwriteProject(projects, id, slug, name, color, t, version) ==
    IF id \notin DOMAIN projects THEN projects
    ELSE [projects EXCEPT ![id] =
            [@ EXCEPT !.slug = slug, !.name = name, !.color = color,
                      !.updated_at = t, !.sync_version = version]]

\* UpdateProject: the row is written and marked dirty
UpdateProject(projects, id, slug, name, color, t) ==
    IF id \notin DOMAIN projects THEN projects
    ELSE [projects EXCEPT ![id] =
            [@ EXCEPT !.slug = slug, !.name = name, !.color = color,
                      !.updated_at = t, !.sync_version = NULL]]

\* DeleteProject: SET deleted_at = ?, updated_at = ?, sync_version = NULL
DeleteProject(projects, id, t) ==
    IF id \notin DOMAIN projects THEN projects
    ELSE [projects EXCEPT ![id] =
            [@ EXCEPT !.deleted_at = TRUE, !.updated_at = t,
                      !.sync_version = NULL]]

UpdateProjectSyncVersion(projects, id, version) ==
    IF id \notin DOMAIN projects THEN projects
    ELSE [projects EXCEPT ![id].sync_version = version]

\* CreateTask: INSERT without sync_version; rejected by the primary key, and
\* by FOREIGN KEY (project_id) REFERENCES projects(id)
CreateTask(projects, tasks, id, projectId, content, status, priority, dueDate, t) ==
    IF id \in DOMAIN tasks \/ projectId \notin DOMAIN projects THEN tasks
    ELSE Put(tasks, id,
             [project_id |-> projectId, content |-> content,
              status |-> status, priority |-> priority, due_date |-> dueDate,
              updated_at |-> t, deleted_at |-> FALSE, sync_version |-> NULL])

UpdateTask(tasks, id, projectId, content, status, priority, dueDate, t) ==
    IF id \notin DOMAIN tasks THEN tasks
    ELSE [tasks EXCEPT ![id] =
            [@ EXCEPT !.project_id = projectId, !.content = content,
                      !.status = status, !.priority = priority,
                      !.due_date = dueDate, !.updated_at = t,
                      !.sync_version = NULL]]

UpdateTaskStatus(tasks, id, status, t) ==
    IF id \notin DOMAIN tasks THEN tasks
    ELSE [tasks EXCEPT ![id] =
            [@ EXCEPT !.status = status, !.updated_at = t,
                      !.sync_version = NULL]]

DeleteTask(tasks, id, t) ==
    IF id \notin DOMAIN tasks THEN tasks
    ELSE [tasks EXCEPT ![id] =
            [@ EXCEPT !.deleted_at = TRUE, !.updated_at = t,
                      !.sync_version = NULL]]

OverwriteTask(tasks, id, projectId, content, status, priority, dueDate, t, version) ==
    IF id \notin DOMAIN tasks THEN tasks
    ELSE [tasks EXCEPT ![id] =
            [@ EXCEPT !.project_id = projectId, !.content = content,
                      !.status = status, !.priority = priority,
                      !.due_date = dueDate, !.updated_at = t,
                      !.sync_version = version]]

UpdateTaskSyncVersion(tasks, id, version) ==
    IF id \notin DOMAIN tasks THEN tasks
    ELSE [tasks EXCEPT ![id].sync_version = version]

\* ORDER BY updated_at of the rows ids of a table
RECURSIVE OrderByUpdatedAt(_, _)
OrderByUpdatedAt(table, ids) ==
    IF ids = {} THEN << >>
    ELSE LET x == CHOOSE y \in ids :
                    \A z \in ids : table[y].updated_at <= table[z].updated_at
         IN <<x>> \o OrderByUpdatedAt(table, ids \ {x})

\* GetProjectsToSync / GetTasksToSync: WHERE sync_version IS NULL
GetProjectsToSync(projects) ==
    OrderByUpdatedAt(projects,
        {x \in DOMAIN projects : projects[x].sync_version = NULL})
GetTasksToSync(tasks) ==
    OrderByUpdatedAt(tasks,
        {x \in DOMAIN tasks : tasks[x].sync_version = NULL})

\* ------------------------------------------------------------------------
\* Sync client
\* ------------------------------------------------------------------------
\* the items pushChanges builds: the dirty projects, then the dirty tasks
LocalProjectItem(projects, id) ==
    [SyncItem(id, "project") EXCEPT
        !.slug = projects[id].slug, !.name = projects[id].name,
        !.encrypted_data =
            B64Encode(JsonProject(projects[id].name, projects[id].color)),
        !.sync_version = 0,
        !.deleted = projects[id].deleted_at,
        !.client_updated_at = projects[id].updated_at]
LocalTaskItem(tasks, id) ==
    [SyncItem(id, "task") EXCEPT
        !.project_id = tasks[id].project_id,
        !.encrypted_content = B64Encode(JsonContent(tasks[id].content)),
        !.status = tasks[id].status, !.priority = tasks[id].priority,
        !.due_date = tasks[id].due_date,
        !.sync_version = 0,
        !.deleted = tasks[id].deleted_at,
        !.client_updated_at = tasks[id].updated_at]

pushItems(projects, tasks) ==
    LET ps == GetProjectsToSync(projects)
        ts == GetTasksToSync(tasks)
    IN [i \in 1..Len(ps) |-> LocalProjectItem(projects, ps[i])]
       \o [i \in 1..Len(ts) |-> LocalTaskItem(tasks, ts[i])]

\* pushChanges after the response: the loop over result.Updated, on the
\* local store db = [projects, tasks]
RECURSIVE applyUpdated(_, _)
applyUpdated(db, updated) ==
    IF updated = << >> THEN db
    ELSE LET item == Head(updated)
             next ==
               IF item.type = "project"
               THEN [db EXCEPT !.projects = UpdateProjectSyncVersion(
                        @, item.client_id, item.sync_version)]
               ELSE IF item.type = "task"
               THEN [db EXCEPT !.tasks = UpdateTaskSyncVersion(
                        @, item.client_id, item.sync_version)]
               ELSE db
         IN applyUpdated(next, Tail(updated))

\* pullChanges, one item of the response applied at client time t
applyPulledItem(db, item, t) ==
    IF item.type = "project"
    THEN LET slug == IF item.slug = "" THEN item.client_id ELSE item.slug
             data == B64Decode(item.encrypted_data)
             name == IF item.name = "" THEN UnmarshalProjectName(data)
                     ELSE item.name
             color == IF item.name = "" /\ UnmarshalProjectColor(data) # ""
                      THEN UnmarshalProjectColor(data) ELSE DefaultColor
         IN IF ~GetProject(db.projects, item.client_id)
            THEN [db EXCEPT !.projects = UpdateProjectSyncVersion(
                    CreateProject(@, item.client_id, slug, name, color, t),
                    item.client_id, item.sync_version)]
            ELSE [db EXCEPT !.projects = OverwriteProject(
                    @, item.client_id, slug, name, color, t,
                    item.sync_version)]
    ELSE IF item.type = "task"
    THEN LET content == IF item.encrypted_content # EmptyString
                        THEN UnmarshalContent(B64Decode(item.encrypted_content))
                        ELSE ""
             status == IF item.status = "" THEN "process" ELSE item.status
         IN IF ~GetTask(db.tasks, item.client_id)
            THEN [db EXCEPT !.tasks = UpdateTaskSyncVersion(
                    CreateTask(db.projects, @, item.client_id, item.project_id,
                               content, status, item.priority, item.due_date, t),
                    item.client_id, item.sync_version)]
            ELSE [db EXCEPT !.tasks = OverwriteTask(
                    @, item.client_id, item.project_id, content, status,
                    item.priority, item.due_date, t, item.sync_version)]
    ELSE db

RECURSIVE applyPulled(_, _, _)
applyPulled(db, items, t) ==
    IF items = << >> THEN db
    ELSE applyPulled(applyPulledItem(db, Head(items), t), Tail(items), t)

\* Model.applyServerItem of the terminal UI: the server's item of a
\* conflict written to the local store at client time t
applyServerItem(db, item, t) ==
    IF item.type = "project"
    THEN LET slug == IF item.slug = "" THEN item.client_id ELSE item.slug
             data == B64Decode(item.encrypted_data)
             name == IF item.name = "" THEN UnmarshalProjectName(data)
                     ELSE item.name
             color == IF item.name = "" /\ UnmarshalProjectColor(data) # ""
                      THEN UnmarshalProjectColor(data) ELSE DefaultColor
         IN IF ~GetProject(db.projects, item.client_id)
            THEN [db EXCEPT !.projects = UpdateProjectSyncVersion(
                    CreateProject(@, item.client_id, slug, name, color, t),
                    item.client_id, item.sync_version)]
            ELSE [db EXCEPT !.projects = OverwriteProject(
                    @, item.client_id, slug, name, color, t,
                    item.sync_version)]
    ELSE IF item.type = "task"
    THEN LET content == IF item.encrypted_content # EmptyString
                        THEN UnmarshalContent(B64Decode(item.encrypted_content))
                        ELSE ""
             status == IF item.status = "" THEN "process" ELSE item.status
         IN IF ~GetTask(db.tasks, item.client_id)
            THEN [db EXCEPT !.tasks = UpdateTaskSyncVersion(
                    CreateTask(db.projects, @, item.client_id, item.project_id,
                               content, status, item.priority, item.due_date, t),
                    item.client_id, item.sync_version)]
            ELSE [db EXCEPT !.tasks = OverwriteTask(
                    @, item.client_id, item.project_id, content, status,
                    item.priority, item.due_date, t, item.sync_version)]
    ELSE db

\* ------------------------------------------------------------------------
\* State
\* ------------------------------------------------------------------------
VARIABLES
    now,            \* wall clock, in ticks
    srvProjects,    \* irontask.projects of the user: client_id -> row
    srvTasks,       \* irontask.tasks of the user: client_id -> row
    locProjects,    \* per replica, table projects: id -> row
    locTasks,       \* per replica, table tasks: id -> row
    lastSync,       \* per replica, Config.LastSync
    pc,             \* per replica, where its Sync call stands
    pushResp,       \* per replica, the SyncPushResponse in flight
    pullResp,       \* per replica, the SyncPullResponse in flight
    result,         \* per replica, the SyncResult of the current / last Sync
    usedIds,        \* task ids (UUIDs) that some replica has generated
    budget,         \* exploration: UI writes and force syncs still allowed
    assignedBefore, \* history: highest version assigned before the last push
    lastAssigned,   \* history: versions assigned by the last push, in order
    unacked,        \* history, per replica: tasks with a UI write that no
                    \* push response has acknowledged
    inFlight,       \* history, per replica: tasks of the push batch under
                    \* way that the UI has not written since
    quiet,          \* history, per replica: no UI write since its Sync began
    fresh,          \* history, per replica: its last pull was served after
                    \* the last change of the server store
    stable,         \* history, per replica: a merge sync returned quiet and
                    \* fresh, and nothing was written here or pushed by
                    \* another replica since,
    token,          \* Config.Token is set (the client is logged in)
    hasSyncedOnce,  \* Config.HasSyncedOnce
    tui,            \* a terminal UI process is running
    handle,         \* Model.autoSync is set
    pending,        \* AutoSync.pending
    syncing,        \* AutoSync.syncing
    stopCh,         \* AutoSync.stopCh is closed
    gpc,            \* where each goroutine stands: "poll" is pollLoop, "d1",
                    \* "d2" are debouncedSync, "ui" is the UI thread
    left,           \* seconds until each debounce timer fires
    pollLeft,       \* seconds until the next tick of the poll ticker
    tickReady,      \* a tick waits in ticker.C
    sinceStart,     \* history: seconds since the auto-sync loop last
                    \* started a Sync, capped at DebounceTime
    busyAt,         \* history, per debounce timer: the doSync under way
                    \* was under way already when the TriggerSync that
                    \* started the timer came
    outbox,         \* what doSync leaves behind: AutoSync.lastError (set
                    \* or nil), the signal onPull put into syncRefreshChan
                    \* and the conflict list last handed to onConflict
    op,             \* history: the operation of the last step
    conflicts,      \* per replica, Model.conflicts of its terminal UI
    keptLocal,      \* history, per replica: the tasks a keep-local was
                    \* applied to, each with the server version of then
    alone,          \* history, per replica: no other replica has changed
                    \* the server store since its force push cleared it
    pushReq         \* per replica, the push request handleSyncPush is
                    \* working on: the items not handled yet, and the
                    \* version the upsert statement under way has read

dataVars == <<now, srvProjects, srvTasks, locProjects, locTasks, lastSync, pc,
              pushResp, pullResp, result, usedIds, budget,
              assignedBefore, lastAssigned, unacked, inFlight, quiet, fresh,
              stable, conflicts, keptLocal, alone, pushReq>>

tuiVars == <<conflicts, keptLocal>>

autoVars == <<token, hasSyncedOnce, tui, handle, pending, syncing, stopCh,
              gpc, left, pollLeft, tickReady, sinceStart, busyAt, outbox,
              op>>

vars == <<dataVars, autoVars>>

NoPushReq == [items |-> << >>, read |-> NULL]
NoPushResp == [updated |-> << >>, conflicts |-> << >>]
NoPullResp == [items |-> << >>, sync_version |-> 0]
\* Sync returns (result, err): Err is TRUE when the error is not nil
NoResult == [Pushed |-> 0, Pulled |-> 0, Conflicts |-> << >>, Err |-> FALSE]

\* NewAutoSync and NewModel: no error, empty channels
NoOutbox == [lastError |-> FALSE, refresh |-> FALSE, conflicts |-> << >>]

\* the debouncedSync goroutines that can be alive at once
TimerName(i) == <<"d1", "d2", "d3", "d4">>[i]
Timers == {TimerName(i) : i \in 1..MaxTimers}
\* the goroutines a terminal UI process can hold
Goroutines == {"poll", "ui"} \cup Timers

\* no terminal UI process: no AutoSync, no goroutine, no timer
NoProcess ==
    /\ tui = FALSE
    /\ handle = FALSE
    /\ pending = FALSE
    /\ syncing = FALSE
    /\ stopCh = FALSE
    /\ gpc = [g \in Goroutines |-> IF g = "ui" THEN "idle" ELSE "none"]
    /\ left = [g \in Timers |-> 0]
    /\ pollLeft = 0
    /\ tickReady = FALSE
    /\ sinceStart = DebounceTime
    /\ busyAt = [g \in Timers |-> FALSE]
    /\ outbox = NoOutbox

\* db.Open on a fresh file on every replica, nothing synced yet; no session
\* in sync.json and no terminal UI running
InitStores ==
    /\ now = 0
    /\ srvProjects = EmptyTable
    /\ srvTasks = EmptyTable
    /\ locProjects = [r \in Replicas |-> Put(EmptyTable, "inbox", InboxRow)]
    /\ locTasks = [r \in Replicas |-> EmptyTable]
    /\ lastSync = [r \in Replicas |-> 0]
    /\ pc = [r \in Replicas |-> "idle"]
    /\ pushResp = [r \in Replicas |-> NoPushResp]
    /\ pullResp = [r \in Replicas |-> NoPullResp]
    /\ result = [r \in Replicas |-> NoResult]
    /\ usedIds = {}
    /\ assignedBefore = 0
    /\ lastAssigned = << >>
    /\ unacked = [r \in Replicas |-> {}]
    /\ inFlight = [r \in Replicas |-> {}]
    /\ quiet = [r \in Replicas |-> TRUE]
    /\ fresh = [r \in Replicas |-> FALSE]
    /\ stable = [r \in Replicas |-> FALSE]
    /\ conflicts = [r \in Replicas |-> << >>]
    /\ keptLocal = [r \in Replicas |-> {}]
    /\ alone = [r \in Replicas |-> FALSE]
    /\ pushReq = [r \in Replicas |-> NoPushReq]
    /\ NoProcess
    /\ token = FALSE
    /\ hasSyncedOnce = FALSE
    /\ op = "init"

Init ==
    /\ InitStores
    /\ budget = [writes |-> MaxWrites, clears |-> 0, fails |-> 0]

serverVars == <<srvProjects, srvTasks, assignedBefore, lastAssigned, pushReq>>
syncVars == <<lastSync, pc, pushResp, pullResp, result>>
histVars == <<unacked, inFlight, quiet, fresh, stable, alone>>

\* ------------------------------------------------------------------------
\* Time
\* ------------------------------------------------------------------------
Tick ==
    /\ now < MaxClock
    /\ now' = now + 1
    /\ UNCHANGED <<autoVars, tuiVars>>
    /\ UNCHANGED <<serverVars, locProjects, locTasks, syncVars, usedIds,
                   budget, histVars>>

\* ------------------------------------------------------------------------
\* UI writes (internal/tui/update.go, internal/cli)
\* ------------------------------------------------------------------------
\* what every UI write of replica r to task id does besides the query
UiWrote(r, id) ==
    /\ budget.writes > 0
    /\ budget' = [budget EXCEPT !.writes = @ - 1]
    /\ unacked' = [unacked EXCEPT ![r] = @ \cup {id}]
    /\ inFlight' = [inFlight EXCEPT ![r] = @ \ {id}]
    /\ quiet' = [quiet EXCEPT ![r] = FALSE]
    /\ stable' = [stable EXCEPT ![r] = FALSE]
    /\ UNCHANGED <<autoVars, tuiVars>>
    /\ UNCHANGED <<now, serverVars, locProjects, syncVars, fresh, alone>>

\* ModeAddTask / task add: a new UUID, in the project under the cursor
UiCreateTaskIn(r, id, projectId, content) ==
    /\ id \notin usedIds
    /\ r = TaskOwner(id)
    /\ GetProject(locProjects[r], projectId)
    /\ locTasks' = [locTasks EXCEPT ![r] =
            CreateTask(locProjects[r], @, id, projectId, content, "process",
                       PriorityLow, "", FormatRFC3339(now))]
    /\ usedIds' = usedIds \cup {id}
    /\ UiWrote(r, id)

\* ModeAddTask / task add in the inbox project
UiCreateTask(r, id, content) == UiCreateTaskIn(r, id, "inbox", content)

\* ModeEditTask: new content on the task under the cursor
UiEditTask(r, id, content) ==
    /\ GetTask(locTasks[r], id)
    /\ content # locTasks[r][id].content
    /\ locTasks' = [locTasks EXCEPT ![r] =
            UpdateTask(@, id, @[id].project_id, content, @[id].status,
                       @[id].priority, @[id].due_date, FormatRFC3339(now))]
    /\ UiWrote(r, id)
    /\ UNCHANGED usedIds

\* handleToggleDone / task done
UiToggleDone(r, id) ==
    /\ GetTask(locTasks[r], id)
    /\ locTasks' = [locTasks EXCEPT ![r] =
            UpdateTaskStatus(@, id,
                IF @[id].status = "done" THEN "process" ELSE "done",
                FormatRFC3339(now))]
    /\ UiWrote(r, id)
    /\ UNCHANGED usedIds

\* handleDelete / task delete
UiDeleteTask(r, id) ==
    /\ GetTask(locTasks[r], id)
    /\ locTasks' = [locTasks EXCEPT ![r] =
            DeleteTask(@, id, FormatRFC3339(now))]
    /\ UiWrote(r, id)
    /\ UNCHANGED usedIds

\* ------------------------------------------------------------------------
\* Sync(db, mode), one HTTP exchange per pair of steps
\* ------------------------------------------------------------------------
Versions(updated) == [i \in 1..Len(updated) |-> updated[i].sync_version]

HighestAssigned ==
    MaxItemVersion([i \in 1..Len(lastAssigned) |->
                        [sync_version |-> lastAssigned[i]]], assignedBefore)

TaskIdsOf(items) ==
    {items[i].client_id : i \in {j \in 1..Len(items) : items[j].type = "task"}}

\* the server store changed under every replica but r
ServerChangedBy(r) ==
    /\ fresh' = [q \in Replicas |-> FALSE]
    /\ stable' = [q \in Replicas |-> IF q = r THEN stable[q] ELSE FALSE]
    /\ alone' = [q \in Replicas |-> IF q = r THEN alone[q] ELSE FALSE]

\* pushChanges up to the response: the request is built from the dirty rows
\* and the server runs handleSyncPush on it; without dirty rows no request
\* is sent
PushRequest(r, from, waitPc, skipPc) ==
    /\ pc[r] = from
    /\ LET items == pushItems(locProjects[r], locTasks[r])
           st == handleSyncPush(srvProjects, srvTasks, items, now)
       IN IF items = << >>
          THEN /\ pc' = [pc EXCEPT ![r] = skipPc]
               /\ UNCHANGED <<srvProjects, srvTasks, assignedBefore,
                              lastAssigned, pushResp, inFlight, fresh, stable,
                              alone>>
          ELSE /\ srvProjects' = st.projects
               /\ srvTasks' = st.tasks
               /\ pushResp' = [pushResp EXCEPT ![r] =
                    [updated |-> st.updated, conflicts |-> st.conflicts]]
               /\ assignedBefore' = HighestAssigned
               /\ lastAssigned' = Versions(st.updated)
               /\ pc' = [pc EXCEPT ![r] = waitPc]
               /\ inFlight' = [inFlight EXCEPT ![r] = TaskIdsOf(items)]
               /\ IF st.updated # << >> THEN ServerChangedBy(r)
                  ELSE UNCHANGED <<fresh, stable, alone>>
    /\ UNCHANGED <<autoVars, tuiVars>>
    /\ UNCHANGED <<now, locProjects, locTasks, lastSync, pullResp, usedIds,
                   budget, unacked, pushReq>>

\* SyncModeMerge, step 1
MergePush(r) ==
    /\ PushRequest(r, "idle", "push_wait", "pull")
    /\ result' = [result EXCEPT ![r] = NoResult]
    /\ quiet' = [quiet EXCEPT ![r] = TRUE]

\* pushChanges from the response on: the sync versions of result.Updated
PushAck(r) ==
    /\ pc[r] \in {"push_wait", "fp_push_wait"}
    /\ LET db == applyUpdated([projects |-> locProjects[r],
                               tasks |-> locTasks[r]], pushResp[r].updated)
       IN /\ locProjects' = [locProjects EXCEPT ![r] = db.projects]
          /\ locTasks' = [locTasks EXCEPT ![r] = db.tasks]
    /\ result' = [result EXCEPT ![r] =
            [@ EXCEPT !.Pushed = Len(pushResp[r].updated),
                      !.Conflicts = pushResp[r].conflicts]]
    /\ pushResp' = [pushResp EXCEPT ![r] = NoPushResp]
    /\ pc' = [pc EXCEPT ![r] = IF pc[r] = "push_wait" THEN "pull" ELSE "idle"]
    /\ unacked' = [unacked EXCEPT ![r] =
            @ \ (TaskIdsOf(pushResp[r].updated) \cap inFlight[r])]
    /\ inFlight' = [inFlight EXCEPT ![r] = {}]
    /\ UNCHANGED <<autoVars, tuiVars>>
    /\ UNCHANGED <<now, serverVars, lastSync, pullResp, usedIds, budget,
                   quiet, fresh, stable, alone>>

\* pullChanges up to the response: GET /sync?since=LastSync
PullRequest(r) ==
    /\ pc[r] = "pull"
    /\ pullResp' = [pullResp EXCEPT ![r] =
            handleSyncPull(srvProjects, srvTasks, lastSync[r])]
    /\ pc' = [pc EXCEPT ![r] = "pull_wait"]
    /\ fresh' = [fresh EXCEPT ![r] = TRUE]
    /\ UNCHANGED <<autoVars, tuiVars>>
    /\ UNCHANGED <<now, serverVars, locProjects, locTasks, lastSync, pushResp,
                   result, usedIds, budget, unacked, inFlight, quiet, stable,
                   alone>>

\* mutant: LastSync is never advanced
nextLastSync_Stuck(old, respVersion) == old
\* Config.LastSync after a pull response
nextLastSync(old, respVersion) == IF respVersion > old THEN respVersion ELSE old

\* pullChanges from the response on, and the return of Sync
PullApply(r) ==
    /\ pc[r] = "pull_wait"
    /\ LET db == applyPulled([projects |-> locProjects[r],
                              tasks |-> locTasks[r]], pullResp[r].items,
                             FormatRFC3339(now))
       IN /\ locProjects' = [locProjects EXCEPT ![r] = db.projects]
          /\ locTasks' = [locTasks EXCEPT ![r] = db.tasks]
    /\ lastSync' = [lastSync EXCEPT ![r] =
            nextLastSync(@, pullResp[r].sync_version)]
    /\ result' = [result EXCEPT ![r].Pulled = Len(pullResp[r].items)]
    /\ pullResp' = [pullResp EXCEPT ![r] = NoPullResp]
    /\ pc' = [pc EXCEPT ![r] = "idle"]
    /\ stable' = [stable EXCEPT ![r] = quiet[r] /\ fresh[r]]
    /\ UNCHANGED <<autoVars, tuiVars>>
    /\ UNCHANGED <<now, serverVars, pushResp, usedIds, budget, unacked,
                   inFlight, quiet, fresh, alone>>

\* SyncModeLocalToRemote, step 1: ClearRemote, served by handleClear
ForcePushClear(r) ==
    /\ pc[r] = "idle"
    /\ budget.clears > 0
    /\ budget' = [budget EXCEPT !.clears = @ - 1]
    /\ srvTasks' = EmptyTable
    /\ srvProjects' = EmptyTable
    /\ result' = [result EXCEPT ![r] = NoResult]
    /\ pc' = [pc EXCEPT ![r] = "fp_push"]
    /\ quiet' = [quiet EXCEPT ![r] = TRUE]
    /\ fresh' = [q \in Replicas |-> FALSE]
    /\ stable' = [q \in Replicas |-> FALSE]
    /\ alone' = [q \in Replicas |-> q = r]
    /\ UNCHANGED <<autoVars, tuiVars>>
    /\ UNCHANGED <<now, assignedBefore, lastAssigned, locProjects, locTasks,
                   lastSync, pushResp, pullResp, usedIds, unacked, inFlight,
                   pushReq>>

\* SyncModeLocalToRemote, step 2
ForcePushPush(r) ==
    /\ PushRequest(r, "fp_push", "fp_push_wait", "idle")
    /\ UNCHANGED <<result, quiet>>

Next ==
    \/ Tick
    \/ \E r \in Replicas, id \in TaskIds, c \in Contents :
            UiCreateTask(r, id, c)
    \/ \E r \in Replicas, id \in TaskIds, c \in Contents :
            UiEditTask(r, id, c)
    \/ \E r \in Replicas, id \in TaskIds : UiToggleDone(r, id)
    \/ \E r \in Replicas, id \in TaskIds : UiDeleteTask(r, id)
    \/ \E r \in Replicas : MergePush(r)
    \/ \E r \in Replicas : PushAck(r)
    \/ \E r \in Replicas : PullRequest(r)
    \/ \E r \in Replicas : PullApply(r)

\* merge syncs only
Spec == Init /\ [][Next]_vars

\* merge syncs and force-push syncs
InitForce ==
    /\ InitStores
    /\ budget = [writes |-> MaxForceWrites, clears |-> MaxClears,
                 fails |-> 0]

NextForce ==
    \/ Next
    \/ \E r \in Replicas : ForcePushClear(r)
    \/ \E r \in Replicas : ForcePushPush(r)

SpecForce == InitForce /\ [][NextForce]_vars

\* SyncModeRemoteToLocal, steps 1 and 2: ClearLocal (ClearTasks, then
\* ClearProjects) and LastSync = 0
ForcePullClear(r) ==
    /\ pc[r] = "idle"
    /\ budget.clears > 0
    /\ budget' = [budget EXCEPT !.clears = @ - 1]
    /\ locTasks' = [locTasks EXCEPT ![r] = EmptyTable]
    /\ locProjects' = [locProjects EXCEPT ![r] = EmptyTable]
    /\ lastSync' = [lastSync EXCEPT ![r] = 0]
    /\ result' = [result EXCEPT ![r] = NoResult]
    /\ pc' = [pc EXCEPT ![r] = "rl_pull"]
    /\ unacked' = [unacked EXCEPT ![r] = {}]
    /\ inFlight' = [inFlight EXCEPT ![r] = {}]
    /\ quiet' = [quiet EXCEPT ![r] = TRUE]
    /\ stable' = [stable EXCEPT ![r] = FALSE]
    /\ UNCHANGED <<autoVars, tuiVars>>
    /\ UNCHANGED <<now, serverVars, pushResp, pullResp, usedIds, fresh,
                   alone>>

\* SyncModeRemoteToLocal, step 3: pullChanges up to the response
ForcePullRequest(r) ==
    /\ pc[r] = "rl_pull"
    /\ pullResp' = [pullResp EXCEPT ![r] =
            handleSyncPull(srvProjects, srvTasks, lastSync[r])]
    /\ pc' = [pc EXCEPT ![r] = "rl_pull_wait"]
    /\ fresh' = [fresh EXCEPT ![r] = TRUE]
    /\ UNCHANGED <<autoVars, tuiVars>>
    /\ UNCHANGED <<now, serverVars, locProjects, locTasks, lastSync, pushResp,
                   result, usedIds, budget, unacked, inFlight, quiet, stable,
                   alone>>

\* SyncModeRemoteToLocal, step 3: pullChanges from the response on, and
\* the return of Sync
ForcePullApply(r) ==
    /\ pc[r] = "rl_pull_wait"
    /\ LET db == applyPulled([projects |-> locProjects[r],
                              tasks |-> locTasks[r]], pullResp[r].items,
                             FormatRFC3339(now))
       IN /\ locProjects' = [locProjects EXCEPT ![r] = db.projects]
          /\ locTasks' = [locTasks EXCEPT ![r] = db.tasks]
    /\ lastSync' = [lastSync EXCEPT ![r] =
            nextLastSync(@, pullResp[r].sync_version)]
    /\ result' = [result EXCEPT ![r].Pulled = Len(pullResp[r].items)]
    /\ pullResp' = [pullResp EXCEPT ![r] = NoPullResp]
    /\ pc' = [pc EXCEPT ![r] = "idle"]
    /\ UNCHANGED <<autoVars, tuiVars>>
    /\ UNCHANGED <<now, serverVars, pushResp, usedIds, budget, unacked,
                   inFlight, quiet, fresh, stable, alone>>

NextPull ==
    \/ Next
    \/ \E r \in Replicas : ForcePullClear(r)
    \/ \E r \in Replicas : ForcePullRequest(r)
    \/ \E r \in Replicas : ForcePullApply(r)

\* merge syncs and force-pull syncs
SpecPull == InitForce /\ [][NextPull]_vars

\* ------------------------------------------------------------------------
\* Projects (internal/cli project commands, ModeAddProject)
\* ------------------------------------------------------------------------
ProjectIds == {"inbox", "p1"}

\* what every UI write of replica r to a project does besides the query
UiWroteProject(r) ==
    /\ budget.writes > 0
    /\ budget' = [budget EXCEPT !.writes = @ - 1]
    /\ quiet' = [quiet EXCEPT ![r] = FALSE]
    /\ stable' = [stable EXCEPT ![r] = FALSE]
    /\ UNCHANGED <<autoVars, tuiVars>>
    /\ UNCHANGED <<now, serverVars, locTasks, syncVars, usedIds, unacked,
                   inFlight, fresh, alone>>

\* ModeAddProject / project new: a new id, the slug made from the name
UiCreateProject(r, id) ==
    /\ id \notin DOMAIN locProjects[r]
    /\ locProjects' = [locProjects EXCEPT ![r] =
            CreateProject(@, id, id, id, DefaultColor, FormatRFC3339(now))]
    /\ UiWroteProject(r)

\* project delete: the inbox is refused, an absent or deleted project is
\* not found; DeleteProjectParams.UpdatedAt is left at the empty string
runProjectDelete(r, id) ==
    /\ id # "inbox"
    /\ GetProject(locProjects[r], id)
    /\ locProjects' = [locProjects EXCEPT ![r] =
            DeleteProject(@, id, ZeroTime)]
    /\ UiWroteProject(r)

NextProject ==
    \/ Tick
    \/ \E r \in Replicas, id \in ProjectIds : UiCreateProject(r, id)
    \/ \E r \in Replicas, id \in TaskIds, p \in ProjectIds, c \in Contents :
            UiCreateTaskIn(r, id, p, c)
    \/ \E r \in Replicas, id \in TaskIds, c \in Contents :
            UiEditTask(r, id, c)
    \/ \E r \in Replicas, id \in TaskIds : UiToggleDone(r, id)
    \/ \E r \in Replicas, id \in TaskIds : UiDeleteTask(r, id)
    \/ \E r \in Replicas, id \in ProjectIds : runProjectDelete(r, id)

\* the commands on projects and tasks, without syncs
SpecProject == Init /\ [][NextProject]_vars

\* the id ModeAddProject gave the project named "work" on replica r: the
\* head of a new UUID
WorkId(r) == IF r = "A" THEN "pa" ELSE "pb"

\* every replica opened a fresh store and added, at time 0 and before any
\* sync, a project named "work" in its terminal UI
InitWork ==
    /\ now = 0
    /\ srvProjects = EmptyTable
    /\ srvTasks = EmptyTable
    /\ locProjects = [r \in Replicas |->
            CreateProject(Put(EmptyTable, "inbox", InboxRow), WorkId(r),
                          "work", "work", DefaultColor, FormatRFC3339(0))]
    /\ locTasks = [r \in Replicas |-> EmptyTable]
    /\ lastSync = [r \in Replicas |-> 0]
    /\ pc = [r \in Replicas |-> "idle"]
    /\ pushResp = [r \in Replicas |-> NoPushResp]
    /\ pullResp = [r \in Replicas |-> NoPullResp]
    /\ result = [r \in Replicas |-> NoResult]
    /\ usedIds = {}
    /\ budget = [writes |-> MaxWorkWrites, clears |-> 0, fails |-> 0]
    /\ assignedBefore = 0
    /\ lastAssigned = << >>
    /\ unacked = [r \in Replicas |-> {}]
    /\ inFlight = [r \in Replicas |-> {}]
    /\ quiet = [r \in Replicas |-> FALSE]
    /\ fresh = [r \in Replicas |-> FALSE]
    /\ stable = [r \in Replicas |-> FALSE]
    /\ conflicts = [r \in Replicas |-> << >>]
    /\ keptLocal = [r \in Replicas |-> {}]
    /\ alone = [r \in Replicas |-> FALSE]
    /\ pushReq = [r \in Replicas |-> NoPushReq]
    /\ NoProcess
    /\ token = FALSE
    /\ hasSyncedOnce = FALSE
    /\ op = "init"

NextWork ==
    \/ Tick
    \/ \E r \in Replicas, q \in Replicas : runProjectDelete(r, WorkId(q))
    \/ \E r \in Replicas : MergePush(r)
    \/ \E r \in Replicas : PushAck(r)
    \/ \E r \in Replicas : PullRequest(r)
    \/ \E r \in Replicas : PullApply(r)

\* projects named alike on two replicas, with merge syncs; the poll ticker
\* of pollLoop keeps starting merge syncs (no replica stays idle for ever),
\* the server answers, and a sync that began runs to its end
SpecWork ==
    /\ InitWork
    /\ [][NextWork]_vars
    /\ \A r \in Replicas : []<>(pc[r] # "idle")
    /\ \A r \in Replicas :
            WF_vars(PushAck(r) \/ PullRequest(r) \/ PullApply(r))

\* ------------------------------------------------------------------------
\* Failed requests of a merge sync
\* ------------------------------------------------------------------------
\* Sync returns an error
SyncError(r) ==
    /\ budget.fails > 0
    /\ budget' = [budget EXCEPT !.fails = @ - 1]
    /\ pc' = [pc EXCEPT ![r] = "idle"]
    /\ result' = [result EXCEPT ![r] = [NoResult EXCEPT !.Err = TRUE]]
    /\ stable' = [stable EXCEPT ![r] = FALSE]

\* mutant: the updated list is applied although the request failed
storeAfterPushError_Applied(db, updated) == applyUpdated(db, updated)
\* pushChanges returns on the error before the loop over result.Updated
storeAfterPushError(db, updated) == db

\* the push request fails before the server handles it (transport error, or
\* a status other than 200 from the middleware or from the binding of the
\* body)
PushRefused(r) ==
    /\ pc[r] = "idle"
    /\ pushItems(locProjects[r], locTasks[r]) # << >>
    /\ SyncError(r)
    /\ quiet' = [quiet EXCEPT ![r] = TRUE]
    /\ UNCHANGED <<autoVars, tuiVars>>
    /\ UNCHANGED <<now, serverVars, locProjects, locTasks, lastSync, pushResp,
                   pullResp, usedIds, unacked, inFlight, fresh, alone>>

\* the push request is handled by the server and its response is lost
PushResponseLost(r) ==
    /\ pc[r] = "push_wait"
    /\ LET db == storeAfterPushError([projects |-> locProjects[r],
                                      tasks |-> locTasks[r]],
                                     pushResp[r].updated)
       IN /\ locProjects' = [locProjects EXCEPT ![r] = db.projects]
          /\ locTasks' = [locTasks EXCEPT ![r] = db.tasks]
    /\ pushResp' = [pushResp EXCEPT ![r] = NoPushResp]
    /\ inFlight' = [inFlight EXCEPT ![r] = {}]
    /\ SyncError(r)
    /\ UNCHANGED <<autoVars, tuiVars>>
    /\ UNCHANGED <<now, serverVars, lastSync, pullResp, usedIds, unacked,
                   quiet, fresh, alone>>

\* the pull request fails (transport error or a status other than 200), or
\* its response is lost
PullFailed(r) ==
    /\ pc[r] \in {"pull", "pull_wait"}
    /\ pullResp' = [pullResp EXCEPT ![r] = NoPullResp]
    /\ SyncError(r)
    /\ UNCHANGED <<autoVars, tuiVars>>
    /\ UNCHANGED <<now, serverVars, locProjects, locTasks, lastSync, pushResp,
                   usedIds, unacked, inFlight, quiet, fresh, alone>>

\* a response with status 200 whose body is not the JSON of a response:
\* the error of Decode is dropped, the loops run over the zero value, and
\* pushChanges goes on to the pull, pullChanges returns without an error
BodyGarbled(r) ==
    /\ pc[r] \in {"push_wait", "pull_wait"}
    /\ budget.fails > 0
    /\ budget' = [budget EXCEPT !.fails = @ - 1]
    /\ IF pc[r] = "push_wait"
       THEN /\ pc' = [pc EXCEPT ![r] = "pull"]
            /\ result' = [result EXCEPT ![r] =
                    [@ EXCEPT !.Pushed = Len(NoPushResp.updated),
                              !.Conflicts = NoPushResp.conflicts]]
            /\ pushResp' = [pushResp EXCEPT ![r] = NoPushResp]
            /\ inFlight' = [inFlight EXCEPT ![r] = {}]
            /\ UNCHANGED <<pullResp, lastSync>>
       ELSE /\ pc' = [pc EXCEPT ![r] = "idle"]
            /\ result' = [result EXCEPT ![r].Pulled = Len(NoPullResp.items)]
            /\ lastSync' = [lastSync EXCEPT ![r] =
                    nextLastSync(@, NoPullResp.sync_version)]
            /\ pullResp' = [pullResp EXCEPT ![r] = NoPullResp]
            /\ UNCHANGED <<pushResp, inFlight>>
    /\ stable' = [stable EXCEPT ![r] = FALSE]
    /\ UNCHANGED <<autoVars, tuiVars>>
    /\ UNCHANGED <<now, serverVars, locProjects, locTasks, usedIds, unacked,
                   quiet, fresh, alone>>

NextFail ==
    \/ Tick
    \/ \E r \in Replicas, id \in TaskIds, c \in Contents :
            UiCreateTask(r, id, c)
    \/ \E r \in Replicas : MergePush(r)
    \/ \E r \in Replicas : PushAck(r)
    \/ \E r \in Replicas : PullRequest(r)
    \/ \E r \in Replicas : PullApply(r)
    \/ \E r \in Replicas : PushRefused(r)
    \/ \E r \in Replicas : PushResponseLost(r)
    \/ \E r \in Replicas : PullFailed(r)
    \/ \E r \in Replicas : BodyGarbled(r)

InitFail ==
    /\ InitStores
    /\ budget = [writes |-> MaxFailWrites, clears |-> 0,
                 fails |-> MaxFailures]

\* merge syncs whose requests may fail
SpecFail == InitFail /\ [][NextFail]_vars

\* ------------------------------------------------------------------------
\* Sessions and the auto-sync loop (internal/sync/client.go, auto.go)
\* ------------------------------------------------------------------------
\* the replica whose terminal UI and sync.json are followed
AutoReplica == "A"

IsLoggedIn == token
CanAutoSync == IsLoggedIn /\ hasSyncedOnce

autoState == <<pending, syncing, stopCh, gpc, left, pollLeft, tickReady,
               sinceStart, busyAt, outbox>>
sessionVars == <<token, hasSyncedOnce, tui, handle>>

\* Register, Login and VerifyMagicLink store the new session alike
StoreSession ==
    /\ token' = TRUE
    /\ hasSyncedOnce' = FALSE
    /\ UNCHANGED <<dataVars, tui, handle, autoState>>

\* the commands of the CLI run while no terminal UI is open
CliIdle == ~tui /\ gpc["ui"] = "idle"

Register == CliIdle /\ StoreSession /\ op' = "Register"
Login == CliIdle /\ StoreSession /\ op' = "Login"
VerifyMagicLink == CliIdle /\ StoreSession /\ op' = "VerifyMagicLink"

\* Client.Logout: the session, LastSync and HasSyncedOnce are cleared
Logout ==
    /\ token' = FALSE
    /\ hasSyncedOnce' = FALSE
    /\ lastSync' = [lastSync EXCEPT ![AutoReplica] = 0]
    /\ UNCHANGED <<now, serverVars, locProjects, locTasks, pc, pushResp,
                   pullResp, result, usedIds, budget, histVars, tuiVars>>

CliLogout ==
    /\ CliIdle
    /\ Logout
    /\ op' = "CliLogout"
    /\ UNCHANGED <<tui, handle, autoState>>

\* irontask sync: the command calls Client.Sync
CliSync ==
    /\ CliIdle
    /\ gpc' = [gpc EXCEPT !["ui"] = "call"]
    /\ op' = "CliSync"
    /\ UNCHANGED <<dataVars, token, hasSyncedOnce, tui, handle, pending,
                   syncing, stopCh, left, pollLeft, tickReady, sinceStart,
             busyAt, outbox>>

\* NewModel: with a session, NewAutoSync starts pollLoop and the first
\* TriggerSync follows at once
NewModel ==
    /\ CliIdle
    /\ tui' = TRUE
    /\ IF IsLoggedIn
       THEN /\ handle' = TRUE
            /\ pending' = CanAutoSync
            /\ gpc' = [gpc EXCEPT !["poll"] = "select",
                           !["d1"] = IF CanAutoSync THEN "wait" ELSE "none"]
            /\ left' = [left EXCEPT !["d1"] =
                            IF CanAutoSync THEN DebounceTime ELSE 0]
            /\ pollLeft' = PollInterval
       ELSE UNCHANGED <<handle, pending, gpc, left, pollLeft>>
    /\ busyAt' = [g \in Timers |-> FALSE]
    /\ outbox' = NoOutbox
    /\ op' = "NewModel"
    /\ UNCHANGED <<dataVars, token, hasSyncedOnce, syncing, stopCh,
                   tickReady, sinceStart>>

\* the terminal UI process ends, and its goroutines with it
Quit ==
    /\ tui
    /\ tui' = FALSE
    /\ handle' = FALSE
    /\ pending' = FALSE
    /\ syncing' = FALSE
    /\ stopCh' = FALSE
    /\ gpc' = [g \in Goroutines |-> IF g = "ui" THEN "idle" ELSE "none"]
    /\ left' = [g \in Timers |-> 0]
    /\ pollLeft' = 0
    /\ tickReady' = FALSE
    /\ sinceStart' = DebounceTime
    /\ busyAt' = [g \in Timers |-> FALSE]
    /\ outbox' = NoOutbox
    /\ op' = "Quit"
    /\ UNCHANGED <<dataVars, token, hasSyncedOnce>>

\* the UI thread is free to call into AutoSync
UiIdle == tui /\ handle /\ gpc["ui"] = "idle"

\* handleLogout: Logout, and the model drops syncClient and autoSync
handleLogout ==
    /\ UiIdle
    /\ Logout
    /\ handle' = FALSE
    /\ op' = "handleLogout"
    /\ UNCHANGED <<tui, autoState>>

FreeTimers == {g \in Timers : gpc[g] = "none"}

\* TriggerSync: without permission a no-op; else the first call sets
\* pending and starts a debouncedSync goroutine, later calls are ignored
StartDebounce ==
    IF CanAutoSync /\ ~pending
    THEN /\ FreeTimers # {}
         /\ LET g == TimerName(CHOOSE i \in 1..MaxTimers :
                           /\ TimerName(i) \in FreeTimers
                           /\ \A j \in 1..(i - 1) :
                                  TimerName(j) \notin FreeTimers)
            IN /\ gpc' = [gpc EXCEPT ![g] = "wait"]
               /\ left' = [left EXCEPT ![g] = DebounceTime]
               /\ busyAt' = [busyAt EXCEPT ![g] = syncing]
         /\ pending' = TRUE
    ELSE UNCHANGED <<pending, gpc, left, busyAt>>

\* a UI command calls TriggerSync
TriggerSync ==
    /\ UiIdle
    /\ StartDebounce
    /\ op' = "TriggerSync"
    /\ UNCHANGED <<dataVars, token, hasSyncedOnce, tui, handle, syncing,
                   stopCh, pollLeft, tickReady, sinceStart, outbox>>

\* SyncNowIfPending: pending is read and cleared under the lock; if it was
\* set, Client.Sync is called on the caller's thread
SyncNowIfPending ==
    /\ UiIdle
    /\ pending' = FALSE
    /\ gpc' = [gpc EXCEPT !["ui"] = IF pending THEN "call" ELSE "idle"]
    /\ op' = "SyncNowIfPending"
    /\ UNCHANGED <<dataVars, token, hasSyncedOnce, tui, handle, syncing,
                   stopCh, left, pollLeft, tickReady, sinceStart, busyAt,
                   outbox>>

\* Stop: close(stopCh)
Stop ==
    /\ UiIdle
    /\ ~stopCh
    /\ stopCh' = TRUE
    /\ op' = "Stop"
    /\ UNCHANGED <<dataVars, token, hasSyncedOnce, tui, handle, pending,
                   syncing, gpc, left, pollLeft, tickReady, sinceStart,
          busyAt, outbox>>

TickerAlive == gpc["poll"] \notin {"none", "done"}

\* a second passes; a timer that is due fires first
Elapse ==
    /\ tui
    /\ TickerAlive => pollLeft > 0
    /\ \A g \in Timers : gpc[g] = "wait" => left[g] > 0
    /\ pollLeft' = IF TickerAlive THEN pollLeft - 1 ELSE pollLeft
    /\ left' = [g \in Timers |-> IF gpc[g] = "wait" THEN left[g] - 1 ELSE 0]
    /\ sinceStart' = IF sinceStart < DebounceTime THEN sinceStart + 1
                     ELSE sinceStart
    /\ op' = "Elapse"
    /\ UNCHANGED <<dataVars, token, hasSyncedOnce, tui, handle, pending,
                   syncing, stopCh, gpc, tickReady, busyAt, outbox>>

\* time.Ticker: a tick is put into ticker.C (dropped if one waits there)
TickerFire ==
    /\ TickerAlive
    /\ pollLeft = 0
    /\ tickReady' = TRUE
    /\ pollLeft' = PollInterval
    /\ op' = "TickerFire"
    /\ UNCHANGED <<dataVars, token, hasSyncedOnce, tui, handle, pending,
                   syncing, stopCh, gpc, left, sinceStart, busyAt, outbox>>

\* where a goroutine stands after its doSync or Sync call is over
Finished(g) == IF g = "poll" THEN "select" ELSE IF g = "ui" THEN "idle"
               ELSE "none"

\* the select of pollLoop and of debouncedSync takes the timer case; when
\* stopCh is closed as well, either case may be taken
SelectTimer(g) ==
    /\ \/ g = "poll" /\ gpc[g] = "select" /\ tickReady
       \/ g \in Timers /\ gpc[g] = "wait" /\ left[g] = 0
    /\ gpc' = [gpc EXCEPT ![g] = "fired"]
    /\ tickReady' = IF g = "poll" THEN FALSE ELSE tickReady
    /\ op' = "SelectTimer"
    /\ UNCHANGED <<dataVars, token, hasSyncedOnce, tui, handle, pending,
                   syncing, stopCh, left, pollLeft, sinceStart, busyAt, outbox>>

\* the select takes case <-a.stopCh: the goroutine returns
SelectStop(g) ==
    /\ stopCh
    /\ \/ g = "poll" /\ gpc[g] = "select"
       \/ g \in Timers /\ gpc[g] = "wait"
    /\ gpc' = [gpc EXCEPT ![g] = IF g = "poll" THEN "done" ELSE "none"]
    /\ left' = IF g \in Timers THEN [left EXCEPT ![g] = 0] ELSE left
    /\ busyAt' = IF g \in Timers THEN [busyAt EXCEPT ![g] = FALSE] ELSE busyAt
    /\ op' = "SelectStop"
    /\ UNCHANGED <<dataVars, token, hasSyncedOnce, tui, handle, pending,
                   syncing, stopCh, pollLeft, tickReady, sinceStart, outbox>>

\* the timer case: pollLoop asks CanAutoSync, debouncedSync clears
\* pending; then doSync up to the call of Client.Sync, skipped when a
\* doSync is under way
doSync(g) ==
    /\ g \in Timers \cup {"poll"}
    /\ gpc[g] = "fired"
    /\ pending' = IF g \in Timers THEN FALSE ELSE pending
    /\ IF (g = "poll" /\ ~CanAutoSync) \/ syncing
       THEN /\ gpc' = [gpc EXCEPT ![g] = Finished(g)]
            /\ UNCHANGED syncing
       ELSE /\ gpc' = [gpc EXCEPT ![g] = "call"]
            /\ syncing' = TRUE
    /\ busyAt' = IF g \in Timers THEN [busyAt EXCEPT ![g] = FALSE] ELSE busyAt
    /\ op' = "doSync"
    /\ UNCHANGED <<dataVars, token, hasSyncedOnce, tui, handle, stopCh,
                   left, pollLeft, tickReady, sinceStart, outbox>>

\* the doSync of goroutine g is over: no timer's trigger came during the
\* doSync under way any more
BusyAfter(g) == IF g = "ui" THEN busyAt ELSE [d \in Timers |-> FALSE]

\* mutant: onPull is called after every successful sync
Notified_AnyPull(out, res, err) ==
    [lastError |-> err,
     refresh |-> IF ~err THEN TRUE ELSE out.refresh,
     conflicts |-> IF ~err /\ res.Conflicts # << >>
                   THEN res.Conflicts ELSE out.conflicts]
\* doSync after Client.Sync returned (res, err): lastError = err; on an
\* error nothing else; else onPull() when res.Pulled > 0 and
\* onConflict(res.Conflicts) when there are conflicts
Notified(out, res, err) ==
    [lastError |-> err,
     refresh |-> IF ~err /\ res.Pulled > 0 THEN TRUE ELSE out.refresh,
     conflicts |-> IF ~err /\ res.Conflicts # << >>
                   THEN res.Conflicts ELSE out.conflicts]

\* Client.Sync called by goroutine g returned; doSync is not on the path of
\* the callers on the UI thread (SyncNowIfPending, irontask sync)
OutboxAfter(g, err) ==
    IF g = "ui" THEN outbox ELSE Notified(outbox, result[AutoReplica], err)

SyncAdmitted_Always == TRUE

\* Client.Sync refuses to run without a session
SyncAdmitted == IsLoggedIn

\* Client.Sync is entered: without a session it returns an error at once
\* (and doSync clears syncing); else the push and pull are under way
SyncEnter(g) ==
    /\ gpc[g] = "call"
    /\ IF SyncAdmitted
       THEN /\ gpc' = [gpc EXCEPT ![g] = "run"]
            /\ sinceStart' = IF g = "ui" THEN sinceStart ELSE 0
            /\ UNCHANGED syncing
            /\ UNCHANGED <<busyAt, outbox>>
       ELSE /\ gpc' = [gpc EXCEPT ![g] = Finished(g)]
            /\ syncing' = IF g = "ui" THEN syncing ELSE FALSE
            /\ busyAt' = BusyAfter(g)
            /\ outbox' = OutboxAfter(g, TRUE)
            /\ UNCHANGED sinceStart
    /\ op' = "SyncEnter"
    /\ UNCHANGED <<dataVars, token, hasSyncedOnce, tui, handle, pending,
                   stopCh, left, pollLeft, tickReady>>

\* mutant: syncing is cleared on the success path only
SyncReturn_Stuck(g, ok) ==
    /\ gpc[g] = "run"
    /\ gpc' = [gpc EXCEPT ![g] = Finished(g)]
    /\ hasSyncedOnce' = IF ok THEN TRUE ELSE hasSyncedOnce
    /\ syncing' = IF g = "ui" \/ ~ok THEN syncing ELSE FALSE
    /\ busyAt' = BusyAfter(g)
    /\ outbox' = OutboxAfter(g, ~ok)
    /\ op' = IF ok THEN "SyncReturn" ELSE "SyncFailed"
    /\ UNCHANGED <<dataVars, token, tui, handle, pending, stopCh, left,
                   pollLeft, tickReady, sinceStart>>
\* Client.Sync returns: after a success SetSyncedOnce; doSync clears
\* syncing
SyncReturn(g, ok) ==
    /\ gpc[g] = "run"
    /\ gpc' = [gpc EXCEPT ![g] = Finished(g)]
    /\ hasSyncedOnce' = IF ok THEN TRUE ELSE hasSyncedOnce
    /\ syncing' = IF g = "ui" THEN syncing ELSE FALSE
    /\ busyAt' = BusyAfter(g)
    /\ outbox' = OutboxAfter(g, ~ok)
    /\ op' = IF ok THEN "SyncReturn" ELSE "SyncFailed"
    /\ UNCHANGED <<dataVars, token, tui, handle, pending, stopCh, left,
                   pollLeft, tickReady, sinceStart>>

\* Client.Sync returns the error of a request the server answered with 401:
\* pushChanges and pullChanges treat it as any status other than 200, and
\* doSync keeps the error in lastError, which the status bar shows
SyncUnauthorized(g) ==
    /\ gpc[g] = "run"
    /\ gpc' = [gpc EXCEPT ![g] = Finished(g)]
    /\ syncing' = IF g = "ui" THEN syncing ELSE FALSE
    /\ busyAt' = BusyAfter(g)
    /\ outbox' = OutboxAfter(g, TRUE)
    /\ op' = "SyncUnauthorized"
    /\ UNCHANGED <<dataVars, token, hasSyncedOnce, tui, handle, pending,
                   stopCh, left, pollLeft, tickReady, sinceStart>>

NextAuto ==
    \/ Register
    \/ Login
    \/ VerifyMagicLink
    \/ CliLogout
    \/ CliSync
    \/ NewModel
    \/ Quit
    \/ handleLogout
    \/ TriggerSync
    \/ SyncNowIfPending
    \/ Stop
    \/ Elapse
    \/ TickerFire
    \/ \E g \in Goroutines : SelectTimer(g)
    \/ \E g \in Goroutines : SelectStop(g)
    \/ \E g \in Goroutines : doSync(g)
    \/ \E g \in Goroutines : SyncEnter(g)
    \/ \E g \in Goroutines, ok \in BOOLEAN : SyncReturn(g, ok)
    \/ \E g \in Goroutines : SyncUnauthorized(g)

\* sessions, the terminal UI and its auto-sync loop
SpecAuto == Init /\ [][NextAuto]_vars

\* what Client.Sync hands back to doSync: (nil, err), or a result with
\* nothing or something pulled and with or without conflicts
SyncOutcomes ==
    {[NoResult EXCEPT !.Err = TRUE]} \cup
    {[NoResult EXCEPT !.Pulled = n, !.Conflicts = c] :
        n \in 0..1,
        c \in {<< >>, <<ConflictItem(SyncItem("t1", "task"),
                                     SyncItem("t1", "task"))>>}}

\* a terminal UI with a session that has synced before, its loop waiting;
\* the syncs of this run all come back with one of SyncOutcomes
InitNotify ==
    /\ now = 0
    /\ srvProjects = EmptyTable
    /\ srvTasks = EmptyTable
    /\ locProjects = [r \in Replicas |-> Put(EmptyTable, "inbox", InboxRow)]
    /\ locTasks = [r \in Replicas |-> EmptyTable]
    /\ lastSync = [r \in Replicas |-> 0]
    /\ pc = [r \in Replicas |-> "idle"]
    /\ pushResp = [r \in Replicas |-> NoPushResp]
    /\ pullResp = [r \in Replicas |-> NoPullResp]
    /\ \E res \in SyncOutcomes :
            result = [r \in Replicas |->
                        IF r = AutoReplica THEN res ELSE NoResult]
    /\ usedIds = {}
    /\ budget = [writes |-> 0, clears |-> 0, fails |-> 0]
    /\ assignedBefore = 0
    /\ lastAssigned = << >>
    /\ unacked = [r \in Replicas |-> {}]
    /\ inFlight = [r \in Replicas |-> {}]
    /\ quiet = [r \in Replicas |-> FALSE]
    /\ fresh = [r \in Replicas |-> FALSE]
    /\ stable = [r \in Replicas |-> FALSE]
    /\ conflicts = [r \in Replicas |-> << >>]
    /\ keptLocal = [r \in Replicas |-> {}]
    /\ alone = [r \in Replicas |-> FALSE]
    /\ pushReq = [r \in Replicas |-> NoPushReq]
    /\ token = TRUE
    /\ hasSyncedOnce = TRUE
    /\ tui = TRUE
    /\ handle = TRUE
    /\ pending = FALSE
    /\ syncing = FALSE
    /\ stopCh = FALSE
    /\ gpc = [g \in Goroutines |->
                 IF g = "ui" THEN "idle"
                 ELSE IF g = "poll" THEN "select" ELSE "none"]
    /\ left = [g \in Timers |-> 0]
    /\ pollLeft = PollInterval
    /\ tickReady = FALSE
    /\ sinceStart = DebounceTime
    /\ busyAt = [g \in Timers |-> FALSE]
    /\ outbox = NoOutbox
    /\ op = "init"

NextNotify ==
    \/ TriggerSync
    \/ Elapse
    \/ TickerFire
    \/ \E g \in Goroutines : SelectTimer(g)
    \/ \E g \in Goroutines : doSync(g)
    \/ \E g \in Goroutines : SyncEnter(g)
    \/ \E g \in Goroutines : SyncReturn(g, ~result[AutoReplica].Err)

\* the loop of one terminal UI, each sync ending as Client.Sync ended
SpecNotify == InitNotify /\ [][NextNotify]_vars

\* ------------------------------------------------------------------------
\* Conflict resolution in the terminal UI (internal/tui/update.go)
\* ------------------------------------------------------------------------
\* after a sync with conflicts, doSync hands result.Conflicts to onConflict
\* and the UI receives conflictMsg: Model.conflicts is replaced
conflictMsg(r) ==
    /\ pc[r] = "idle"
    /\ result[r].Conflicts # << >>
    /\ conflicts' = [conflicts EXCEPT ![r] = result[r].Conflicts]
    /\ result' = [result EXCEPT ![r].Conflicts = << >>]
    /\ UNCHANGED <<now, serverVars, locProjects, locTasks, lastSync, pc,
                   pushResp, pullResp, usedIds, budget, histVars, keptLocal,
                   sessionVars, autoState>>
    /\ op' = "conflictMsg"

\* the server's version of a row, 0 when the server has no such row
ServerVersionOf(type, id) ==
    IF type = "task"
    THEN (IF id \in DOMAIN srvTasks THEN srvTasks[id].sync_version ELSE 0)
    ELSE (IF id \in DOMAIN srvProjects THEN srvProjects[id].sync_version ELSE 0)

\* what resolveConflict does after either choice: the conflict is dropped
\* from Model.conflicts; after the last one, TriggerSync is called if this
\* choice was keep-local and the UI holds an AutoSync
Resolved(r, keepLocal) ==
    /\ conflicts' = [conflicts EXCEPT ![r] = Tail(@)]
    /\ quiet' = [quiet EXCEPT ![r] = FALSE]
    /\ stable' = [stable EXCEPT ![r] = FALSE]
    /\ IF Tail(conflicts[r]) = << >> /\ keepLocal /\ handle /\ r = AutoReplica
       THEN /\ StartDebounce
            /\ UNCHANGED <<syncing, stopCh, pollLeft, tickReady, sinceStart,
                           outbox>>
       ELSE UNCHANGED autoState
    /\ UNCHANGED <<now, serverVars, syncVars, usedIds, budget, fresh, alone,
                   sessionVars>>

\* resolveConflict(true): the local row, if GetTask / GetProject finds it,
\* is written back unchanged with updated_at = now, which marks it dirty
KeepLocal(r) ==
    /\ conflicts[r] # << >>
    /\ LET c == Head(conflicts[r])
           id == c.client_id
           t == FormatRFC3339(now)
       IN /\ IF c.type = "task" /\ GetTask(locTasks[r], id)
             THEN locTasks' = [locTasks EXCEPT ![r] =
                    UpdateTask(@, id, @[id].project_id, @[id].content,
                               @[id].status, @[id].priority, @[id].due_date, t)]
             ELSE UNCHANGED locTasks
          /\ IF c.type = "project" /\ GetProject(locProjects[r], id)
             THEN locProjects' = [locProjects EXCEPT ![r] =
                    UpdateProject(@, id, @[id].slug, @[id].name, @[id].color, t)]
             ELSE UNCHANGED locProjects
          /\ keptLocal' = [keptLocal EXCEPT ![r] = @ \cup
                {[type |-> c.type, client_id |-> id,
                  version |-> ServerVersionOf(c.type, id)]}]
          /\ unacked' = [unacked EXCEPT ![r] =
                IF c.type = "task" THEN @ \cup {id} ELSE @]
          /\ inFlight' = [inFlight EXCEPT ![r] = @ \ {id}]
    /\ op' = "KeepLocal"
    /\ Resolved(r, TRUE)

\* resolveConflict(false): applyServerItem(conflict.ServerData)
KeepServer(r) ==
    /\ conflicts[r] # << >>
    /\ LET c == Head(conflicts[r])
           db == applyServerItem([projects |-> locProjects[r],
                                  tasks |-> locTasks[r]], c.server_data,
                                 FormatRFC3339(now))
       IN /\ locProjects' = [locProjects EXCEPT ![r] = db.projects]
          /\ locTasks' = [locTasks EXCEPT ![r] = db.tasks]
          /\ unacked' = [unacked EXCEPT ![r] = @ \ {c.client_id}]
          /\ inFlight' = [inFlight EXCEPT ![r] = @ \ {c.client_id}]
    /\ UNCHANGED keptLocal
    /\ op' = "KeepServer"
    /\ Resolved(r, FALSE)

\* handleConflictKeys, q / esc: the conflicts are dropped unresolved
IgnoreConflicts(r) ==
    /\ conflicts[r] # << >>
    /\ conflicts' = [conflicts EXCEPT ![r] = << >>]
    /\ UNCHANGED <<now, serverVars, locProjects, locTasks, syncVars, usedIds,
                   budget, histVars, keptLocal, sessionVars, autoState>>
    /\ op' = "IgnoreConflicts"

NextResolve ==
    \/ Next
    \/ \E r \in Replicas : conflictMsg(r)
    \/ \E r \in Replicas : KeepLocal(r)
    \/ \E r \in Replicas : KeepServer(r)
    \/ \E r \in Replicas : IgnoreConflicts(r)

\* merge syncs, with the conflicts resolved in the terminal UI
SpecResolve == Init /\ [][NextResolve]_vars

\* a run that leaves replica A with two conflicting rows: at time 0 A
\* creates t1 and t2, syncs, and edits both; B syncs at time 0, marks both
\* done at time 1 and syncs. A's terminal UI is open with its AutoSync, and
\* A's edits are not pushed yet
InitQueue ==
    LET inbox == Put(EmptyTable, "inbox", InboxRow)
        a0 == [projects |-> inbox,
               tasks |-> CreateTask(inbox,
                            CreateTask(inbox, EmptyTable, "t1", "inbox", "a",
                                       "process", PriorityLow, "", 0),
                            "t2", "inbox", "a", "process", PriorityLow, "", 0)]
        s1 == handleSyncPush(EmptyTable, EmptyTable,
                             pushItems(a0.projects, a0.tasks), 0)
        p1 == handleSyncPull(s1.projects, s1.tasks, 0)
        a1 == applyPulled(applyUpdated(a0, s1.updated), p1.items, 0)
        a2 == [a1 EXCEPT !.tasks =
                UpdateTask(UpdateTask(@, "t1", "inbox", "b", "process",
                                      PriorityLow, "", 0),
                           "t2", "inbox", "b", "process", PriorityLow, "", 0)]
        b0 == [projects |-> inbox, tasks |-> EmptyTable]
        s2 == handleSyncPush(s1.projects, s1.tasks,
                             pushItems(b0.projects, b0.tasks), 0)
        p2 == handleSyncPull(s2.projects, s2.tasks, 0)
        b1 == applyPulled(applyUpdated(b0, s2.updated), p2.items, 0)
        b2 == [b1 EXCEPT !.tasks =
                UpdateTaskStatus(UpdateTaskStatus(@, "t1", "done", 1),
                                 "t2", "done", 1)]
        s3 == handleSyncPush(s2.projects, s2.tasks,
                             pushItems(b2.projects, b2.tasks), 1)
        p3 == handleSyncPull(s3.projects, s3.tasks, p2.sync_version)
        b3 == applyPulled(applyUpdated(b2, s3.updated), p3.items, 1)
    IN /\ now = 1
       /\ srvProjects = s3.projects
       /\ srvTasks = s3.tasks
       /\ locProjects = [r \in Replicas |->
                            IF r = "A" THEN a2.projects ELSE b3.projects]
       /\ locTasks = [r \in Replicas |->
                            IF r = "A" THEN a2.tasks ELSE b3.tasks]
       /\ lastSync = [r \in Replicas |->
                        IF r = "A" THEN nextLastSync(0, p1.sync_version)
                        ELSE nextLastSync(nextLastSync(0, p2.sync_version),
                                          p3.sync_version)]
       /\ pc = [r \in Replicas |-> "idle"]
       /\ pushResp = [r \in Replicas |-> NoPushResp]
       /\ pullResp = [r \in Replicas |-> NoPullResp]
       /\ result = [r \in Replicas |-> NoResult]
       /\ usedIds = {"t1", "t2"}
       /\ budget = [writes |-> MaxQueueWrites, clears |-> 0, fails |-> 0]
       /\ assignedBefore = MaxItemVersion(s2.updated,
                                MaxItemVersion(s1.updated, 0))
       /\ lastAssigned = Versions(s3.updated)
       /\ unacked = [r \in Replicas |-> IF r = "A" THEN {"t1", "t2"} ELSE {}]
       /\ inFlight = [r \in Replicas |-> {}]
       /\ quiet = [r \in Replicas |-> r = "B"]
       /\ fresh = [r \in Replicas |-> FALSE]
       /\ stable = [r \in Replicas |-> FALSE]
       /\ conflicts = [r \in Replicas |-> << >>]
       /\ keptLocal = [r \in Replicas |-> {}]
       /\ alone = [r \in Replicas |-> FALSE]
       /\ pushReq = [r \in Replicas |-> NoPushReq]
       /\ token = TRUE
       /\ hasSyncedOnce = TRUE
       /\ tui = TRUE
       /\ handle = TRUE
       /\ pending = FALSE
       /\ syncing = FALSE
       /\ stopCh = FALSE
       /\ gpc = [g \in Goroutines |->
                    IF g = "ui" THEN "idle"
                    ELSE IF g = "poll" THEN "select" ELSE "none"]
       /\ left = [g \in Timers |-> 0]
       /\ pollLeft = PollInterval
       /\ tickReady = FALSE
       /\ sinceStart = DebounceTime
       /\ busyAt = [g \in Timers |-> FALSE]
       /\ outbox = NoOutbox
       /\ op = "init"

NextQueue ==
    \/ /\ now < MaxQueueClock
       /\ now' = now + 1
       /\ UNCHANGED <<autoVars, tuiVars>>
       /\ UNCHANGED <<serverVars, locProjects, locTasks, syncVars, usedIds,
                      budget, histVars>>
    \/ \E r \in Replicas, c \in Contents : UiEditTask(r, "t2", c)
    \/ \E r \in Replicas : MergePush(r)
    \/ \E r \in Replicas : PushAck(r)
    \/ \E r \in Replicas : PullRequest(r)
    \/ \E r \in Replicas : PullApply(r)
    \/ \E r \in Replicas : conflictMsg(r)
    \/ \E r \in Replicas : KeepLocal(r)
    \/ \E r \in Replicas : KeepServer(r)
    \/ \E r \in Replicas : IgnoreConflicts(r)

\* merge syncs and the conflict resolver on a queue of two conflicts, with
\* later edits of task t2 (made in the UI or by the CLI next to it)
SpecQueue == InitQueue /\ [][NextQueue]_vars

\* ------------------------------------------------------------------------
\* Requests of two users (server/sync.go, sql/server/queries.sql): here each
\* replica is logged in as a user of its own, named as the replica, and the
\* server tables hold rows under the key <<user_id, client_id>>
\* ------------------------------------------------------------------------
\* mutant: rows of other users show up where the user has no row of that id
OfUser_Any(table, u) ==
    [id \in {k[2] : k \in DOMAIN table} |->
        IF <<u, id>> \in DOMAIN table THEN table[<<u, id>>]
        ELSE table[CHOOSE k \in DOMAIN table : k[2] = id]]
\* WHERE user_id = $1, in every sync query: the rows of user u by client_id
OfUser(table, u) ==
    [id \in {k[2] : k \in {x \in DOMAIN table : x[1] = u}} |->
        table[<<u, id>>]]

\* one request of the client of user r, handled by the server with
\* user_id = r: POST /sync with the dirty rows (upserts ON CONFLICT
\* (user_id, client_id)), GET /sync?since=LastSync, or POST /clear
\* (DELETE ... WHERE user_id = $1)
UserRequest(r, kind) ==
    /\ pc[r] = "idle"
    /\ LET projects == OfUser(srvProjects, r)
           tasks == OfUser(srvTasks, r)
           st == handleSyncPush(projects, tasks,
                                pushItems(locProjects[r], locTasks[r]), now)
           Stored(table, view) ==
                [k \in {x \in DOMAIN table : x[1] # r}
                        \cup {<<r, id>> : id \in DOMAIN view} |->
                    IF k[1] = r THEN view[k[2]] ELSE table[k]]
       IN CASE kind = "push" ->
                /\ MaxSyncVersion(projects) < MaxUserVersion
                /\ MaxSyncVersion(tasks) < MaxUserVersion
                /\ srvProjects' = Stored(srvProjects, st.projects)
                /\ srvTasks' = Stored(srvTasks, st.tasks)
                /\ pushResp' = [pushResp EXCEPT ![r] =
                        [updated |-> st.updated, conflicts |-> st.conflicts]]
                /\ UNCHANGED <<pullResp, budget>>
            [] kind = "pull" ->
                /\ pullResp' = [pullResp EXCEPT ![r] =
                        handleSyncPull(projects, tasks, lastSync[r])]
                /\ UNCHANGED <<srvProjects, srvTasks, pushResp, budget>>
            [] kind = "clear" ->
                /\ budget.clears > 0
                /\ budget' = [budget EXCEPT !.clears = @ - 1]
                /\ srvTasks' = Stored(srvTasks, EmptyTable)
                /\ srvProjects' = Stored(srvProjects, EmptyTable)
                /\ UNCHANGED <<pushResp, pullResp>>
    /\ UNCHANGED <<autoVars, tuiVars>>
    /\ UNCHANGED <<now, locProjects, locTasks, lastSync, pc, result, usedIds,
                   assignedBefore, lastAssigned, pushReq, histVars>>

\* fresh stores; user A has written task t1, user B task t2
InitUsers ==
    /\ now = 0
    /\ srvProjects = EmptyTable
    /\ srvTasks = EmptyTable
    /\ locProjects = [r \in Replicas |-> Put(EmptyTable, "inbox", InboxRow)]
    /\ locTasks = [r \in Replicas |->
            CreateTask(Put(EmptyTable, "inbox", InboxRow), EmptyTable,
                       IF r = "A" THEN "t1" ELSE "t2", "inbox", "a",
                       "process", PriorityLow, "", FormatRFC3339(0))]
    /\ lastSync = [r \in Replicas |-> 0]
    /\ pc = [r \in Replicas |-> "idle"]
    /\ pushResp = [r \in Replicas |-> NoPushResp]
    /\ pullResp = [r \in Replicas |-> NoPullResp]
    /\ result = [r \in Replicas |-> NoResult]
    /\ usedIds = {"t1", "t2"}
    /\ budget = [writes |-> 0, clears |-> MaxClears, fails |-> 0]
    /\ assignedBefore = 0
    /\ lastAssigned = << >>
    /\ unacked = [r \in Replicas |-> {}]
    /\ inFlight = [r \in Replicas |-> {}]
    /\ quiet = [r \in Replicas |-> FALSE]
    /\ fresh = [r \in Replicas |-> FALSE]
    /\ stable = [r \in Replicas |-> FALSE]
    /\ conflicts = [r \in Replicas |-> << >>]
    /\ keptLocal = [r \in Replicas |-> {}]
    /\ alone = [r \in Replicas |-> FALSE]
    /\ pushReq = [r \in Replicas |-> NoPushReq]
    /\ NoProcess
    /\ token = TRUE
    /\ hasSyncedOnce = FALSE
    /\ op = "init"

NextUsers ==
    \/ Tick
    \/ \E r \in Replicas, kind \in {"push", "pull", "clear"} :
            UserRequest(r, kind)

\* the server handling requests of two users
SpecUsers == InitUsers /\ [][NextUsers]_vars

\* ------------------------------------------------------------------------
\* Push requests handled concurrently (server/sync.go, one statement at a
\* time, no transaction around the loop)
\* ------------------------------------------------------------------------
\* pushChanges up to the request: handleSyncPush starts on the items
PushSend(r) ==
    /\ pc[r] = "idle"
    /\ LET items == pushItems(locProjects[r], locTasks[r])
       IN IF items = << >>
          THEN /\ pc' = [pc EXCEPT ![r] = "pull"]
               /\ UNCHANGED <<pushReq, inFlight>>
          ELSE /\ pc' = [pc EXCEPT ![r] = "push_sent"]
               /\ pushReq' = [pushReq EXCEPT ![r] =
                                [items |-> items, read |-> NULL]]
               /\ inFlight' = [inFlight EXCEPT ![r] = TaskIdsOf(items)]
    /\ result' = [result EXCEPT ![r] = NoResult]
    /\ quiet' = [quiet EXCEPT ![r] = TRUE]
    /\ UNCHANGED <<autoVars, tuiVars>>
    /\ UNCHANGED <<now, srvProjects, srvTasks, assignedBefore, lastAssigned,
                   locProjects, locTasks, lastSync, pushResp, pullResp,
                   usedIds, budget, unacked, fresh, stable, alone>>

\* the store and the lists the handler of replica r's request works on
HandlerState(r) ==
    [projects |-> srvProjects, tasks |-> srvTasks,
     updated |-> pushResp[r].updated, conflicts |-> pushResp[r].conflicts]

\* one item of the loop of handleSyncPush, up to the snapshot of its upsert
\* statement: the conflict test, and MAX(sync_version) + 1 read from the
\* rows committed so far
UpsertBegin(r) ==
    /\ pushReq[r].items # << >>
    /\ pushReq[r].read = NULL
    /\ LET item == Head(pushReq[r].items)
           st == HandlerState(r)
       IN IF ItemHasConflict(st, item)
          THEN /\ pushResp' = [pushResp EXCEPT ![r].conflicts =
                                AppendConflict(st, item).conflicts]
               /\ pushReq' = [pushReq EXCEPT ![r].items = Tail(@)]
          ELSE /\ pushReq' = [pushReq EXCEPT ![r].read =
                    IF item.type = "task" THEN MaxSyncVersion(srvTasks) + 1
                    ELSE MaxSyncVersion(srvProjects) + 1]
               /\ UNCHANGED pushResp
    /\ UNCHANGED <<autoVars, tuiVars>>
    /\ UNCHANGED <<now, srvProjects, srvTasks, assignedBefore, lastAssigned,
                   locProjects, locTasks, lastSync, pc, pullResp, result,
                   usedIds, budget, histVars>>

\* the upsert statement writes its row with the version it has read, and
\* the item is appended to updated
UpsertEnd(r) ==
    /\ pushReq[r].read # NULL
    /\ LET item == Head(pushReq[r].items)
           v == pushReq[r].read
           st == UpsertItem(HandlerState(r), item, now)
       IN /\ srvProjects' =
                IF item.type = "project" /\ st.projects # srvProjects
                THEN [st.projects EXCEPT ![item.client_id].sync_version = v]
                ELSE srvProjects
          /\ srvTasks' =
                IF item.type = "task"
                THEN [st.tasks EXCEPT ![item.client_id].sync_version = v]
                ELSE srvTasks
          /\ pushResp' = [pushResp EXCEPT ![r].updated =
                IF st.updated = pushResp[r].updated THEN @
                ELSE Append(@, [item EXCEPT !.sync_version = v])]
          /\ lastAssigned' = <<v>>
    /\ assignedBefore' = HighestAssigned
    /\ pushReq' = [pushReq EXCEPT ![r] = [items |-> Tail(@.items),
                                           read |-> NULL]]
    /\ ServerChangedBy(r)
    /\ UNCHANGED <<autoVars, tuiVars>>
    /\ UNCHANGED <<now, locProjects, locTasks, lastSync, pc, pullResp, result,
                   usedIds, budget, unacked, inFlight, quiet>>

\* handleSyncPush answers with updated and conflicts
PushRespond(r) ==
    /\ pc[r] = "push_sent"
    /\ pushReq[r] = NoPushReq
    /\ pc' = [pc EXCEPT ![r] = "push_wait"]
    /\ UNCHANGED <<autoVars, tuiVars>>
    /\ UNCHANGED <<now, serverVars, locProjects, locTasks, lastSync, pushResp,
                   pullResp, result, usedIds, budget, histVars>>

\* each replica has created one task of its own; nothing is synced yet
InitRace ==
    LET inbox == Put(EmptyTable, "inbox", InboxRow)
        own(r) == IF r = "A" THEN "t1" ELSE "t2"
    IN /\ now = 0
       /\ srvProjects = EmptyTable
       /\ srvTasks = EmptyTable
       /\ locProjects = [r \in Replicas |-> inbox]
       /\ locTasks = [r \in Replicas |->
                        CreateTask(inbox, EmptyTable, own(r), "inbox", "a",
                                   "process", PriorityLow, "", 0)]
       /\ lastSync = [r \in Replicas |-> 0]
       /\ pc = [r \in Replicas |-> "idle"]
       /\ pushResp = [r \in Replicas |-> NoPushResp]
       /\ pullResp = [r \in Replicas |-> NoPullResp]
       /\ result = [r \in Replicas |-> NoResult]
       /\ usedIds = {"t1", "t2"}
       /\ budget = [writes |-> 0, clears |-> 0, fails |-> 0]
       /\ assignedBefore = 0
       /\ lastAssigned = << >>
       /\ unacked = [r \in Replicas |-> {own(r)}]
       /\ inFlight = [r \in Replicas |-> {}]
       /\ quiet = [r \in Replicas |-> FALSE]
       /\ fresh = [r \in Replicas |-> FALSE]
       /\ stable = [r \in Replicas |-> FALSE]
       /\ conflicts = [r \in Replicas |-> << >>]
       /\ keptLocal = [r \in Replicas |-> {}]
       /\ alone = [r \in Replicas |-> FALSE]
       /\ pushReq = [r \in Replicas |-> NoPushReq]
       /\ NoProcess
       /\ token = FALSE
       /\ hasSyncedOnce = FALSE
       /\ op = "init"

NextRace ==
    \/ Tick
    \/ \E r \in Replicas : PushSend(r)
    \/ \E r \in Replicas : UpsertBegin(r)
    \/ \E r \in Replicas : UpsertEnd(r)
    \/ \E r \in Replicas : PushRespond(r)
    \/ \E r \in Replicas : PushAck(r)
    \/ \E r \in Replicas : PullRequest(r)
    \/ \E r \in Replicas : PullApply(r)

\* merge syncs whose push requests the server handles statement by statement
SpecRace == InitRace /\ [][NextRace]_vars

\* ------------------------------------------------------------------------
\* Properties
\* ------------------------------------------------------------------------
\* the step in which the server serves a push request of replica r
PushStep(r) ==
    /\ pc[r] \in {"idle", "fp_push"}
    /\ pc'[r] \in {"push_wait", "fp_push_wait"}

\* the successful return of a merge sync of replica r
MergeReturn(r) == pc[r] = "pull_wait" /\ pc'[r] = "idle"

ItemIn(items, type, id) ==
    \E k \in 1..Len(items) :
        items[k].type = type /\ items[k].client_id = id

CountType(items, type) ==
    Cardinality({k \in 1..Len(items) : items[k].type = type})

\* C1: every upsert of the user gets a sync_version strictly greater than
\* every version assigned to the user before it (across projects and tasks,
\* and across a clear of the user's data)
C1_VersionsStrictlyIncreasing ==
    \A i \in 1..Len(lastAssigned) :
        /\ lastAssigned[i] > assignedBefore
        /\ \A j \in 1..(i - 1) : lastAssigned[i] > lastAssigned[j]

\* C2: for every since-value V the pull response holds every project and
\* task row with sync_version > V, soft-deleted ones included, once each,
\* and no row with sync_version <= V
C2_PullReturnsExactlyNewer ==
    \A V \in 0..(Max(MaxSyncVersion(srvProjects), MaxSyncVersion(srvTasks)) + 1) :
        LET items == handleSyncPull(srvProjects, srvTasks, V).items
        IN /\ \A x \in DOMAIN srvProjects :
                srvProjects[x].sync_version > V =>
                    \E k \in 1..Len(items) :
                        /\ items[k].type = "project"
                        /\ items[k].client_id = x
                        /\ items[k].sync_version = srvProjects[x].sync_version
                        /\ items[k].deleted = srvProjects[x].deleted
           /\ \A x \in DOMAIN srvTasks :
                srvTasks[x].sync_version > V =>
                    \E k \in 1..Len(items) :
                        /\ items[k].type = "task"
                        /\ items[k].client_id = x
                        /\ items[k].sync_version = srvTasks[x].sync_version
                        /\ items[k].deleted = srvTasks[x].deleted
           /\ \A k \in 1..Len(items) :
                /\ items[k].sync_version > V
                /\ IF items[k].type = "project"
                   THEN items[k].client_id \in DOMAIN srvProjects
                   ELSE items[k].client_id \in DOMAIN srvTasks
                /\ \A j \in 1..Len(items) :
                     (items[j].type = items[k].type
                        /\ items[j].client_id = items[k].client_id) => j = k

\* a soft-deleted task above the threshold 1 and a project at or below it
C2_Witness ==
    /\ \E x \in DOMAIN srvTasks :
            srvTasks[x].deleted /\ srvTasks[x].sync_version > 1
    /\ \E x \in DOMAIN srvProjects : srvProjects[x].sync_version <= 1

\* C3: a pushed item is reported in conflicts and not upserted exactly when
\* its row exists on the server with a stored client_updated_at strictly
\* after the request's client_updated_at; otherwise it is upserted and
\* returned in updated with a new version
C3_ConflictIffStoredClientTimeAfter ==
    [][\A r \in Replicas : PushStep(r) =>
        LET items == pushItems(locProjects[r], locTasks[r])
        IN \A i \in 1..Len(items) :
            LET it == items[i]
                table == IF it.type = "task" THEN srvTasks ELSE srvProjects
                clientTime == ParseClientTime(it.client_updated_at)
                stale == /\ it.client_id \in DOMAIN table
                         /\ After(table[it.client_id].client_updated_at,
                                  clientTime)
            IN ~IsZero(clientTime) =>
                /\ ItemIn(pushResp'[r].conflicts, it.type, it.client_id)
                        <=> stale
                /\ ItemIn(pushResp'[r].updated, it.type, it.client_id)
                        <=> ~stale
    ]_vars

\* C4: an item reported as a conflict leaves its server row as it was
\* (same sync_version, same fields) and consumes no version: the highest
\* version of each table grows by the number of items upserted into it
C4_ConflictLeavesServerUntouched ==
    [][\A r \in Replicas : PushStep(r) =>
        LET cs == pushResp'[r].conflicts
            up == pushResp'[r].updated
        IN /\ \A k \in 1..Len(cs) :
                IF cs[k].type = "task"
                THEN /\ cs[k].client_id \in DOMAIN srvTasks
                     /\ srvTasks'[cs[k].client_id] = srvTasks[cs[k].client_id]
                     /\ cs[k].server_version
                            = srvTasks[cs[k].client_id].sync_version
                ELSE /\ cs[k].client_id \in DOMAIN srvProjects
                     /\ srvProjects'[cs[k].client_id]
                            = srvProjects[cs[k].client_id]
                     /\ cs[k].server_version
                            = srvProjects[cs[k].client_id].sync_version
           /\ MaxSyncVersion(srvTasks')
                = MaxSyncVersion(srvTasks) + CountType(up, "task")
           /\ MaxSyncVersion(srvProjects')
                = MaxSyncVersion(srvProjects) + CountType(up, "project")
    ]_vars

\* a push response that reports a conflict
C4_Witness == \E r \in Replicas : pushResp[r].conflicts # << >>

Dirty(row) == row.sync_version = NULL

\* C5: a local task row has sync_version = NULL exactly when it carries a
\* UI write that no push response has acknowledged; a write made after the
\* push batch was serialized is not acknowledged by that batch
C5_DirtyIffUnacknowledged ==
    \A r \in Replicas : \A id \in DOMAIN locTasks[r] :
        Dirty(locTasks[r][id]) <=> id \in unacked[r]

\* C6: when a merge sync without concurrent UI writes returns, a local row
\* is dirty if and only if it is among the conflicts of that sync's push
C6_DirtyIffConflicted ==
    [][\A r \in Replicas : (MergeReturn(r) /\ quiet[r]) =>
        /\ \A id \in DOMAIN locTasks'[r] :
                Dirty(locTasks'[r][id])
                    <=> ItemIn(result'[r].Conflicts, "task", id)
        /\ \A id \in DOMAIN locProjects'[r] :
                Dirty(locProjects'[r][id])
                    <=> ItemIn(result'[r].Conflicts, "project", id)
    ]_vars

\* C7: when a merge sync without concurrent UI writes returns, every task
\* its push reported as a conflict still has the fields the replica sent
\* and is still dirty
C7_ConflictedRowKeepsLocalValue ==
    [][\A r \in Replicas : (MergeReturn(r) /\ quiet[r]) =>
        \A k \in 1..Len(result'[r].Conflicts) :
            LET c == result'[r].Conflicts[k]
            IN c.type = "task" =>
                /\ c.client_id \in DOMAIN locTasks'[r]
                /\ Dirty(locTasks'[r][c.client_id])
                /\ LocalTaskItem(locTasks'[r], c.client_id) = c.client_data
    ]_vars

\* the pull request of a replica that has never pulled
FirstPullRequest(r) ==
    pc[r] = "pull" /\ pc'[r] = "pull_wait" /\ lastSync[r] = 0

Quiescent ==
    /\ \A r \in Replicas : pc[r] = "idle" /\ stable[r]
    /\ \A r \in Replicas :
        /\ \A id \in DOMAIN locTasks[r] : ~Dirty(locTasks[r][id])
        /\ \A id \in DOMAIN locProjects[r] : ~Dirty(locProjects[r][id])

\* replica r holds the rows of the server store: same ids, same fields,
\* same deleted flags
SameAsServer(r) ==
    /\ DOMAIN locProjects[r] = DOMAIN srvProjects
    /\ \A id \in DOMAIN srvProjects :
        /\ locProjects[r][id].slug = srvProjects[id].slug
        /\ locProjects[r][id].name = srvProjects[id].name
        /\ locProjects[r][id].deleted_at = srvProjects[id].deleted
    /\ DOMAIN locTasks[r] = DOMAIN srvTasks
    /\ \A id \in DOMAIN srvTasks :
        /\ locTasks[r][id].project_id = srvTasks[id].project_id
        /\ JsonContent(locTasks[r][id].content)
                = srvTasks[id].encrypted_content
        /\ locTasks[r][id].status = srvTasks[id].status
        /\ locTasks[r][id].priority = srvTasks[id].priority
        /\ locTasks[r][id].due_date = srvTasks[id].due_date
        /\ locTasks[r][id].deleted_at = srvTasks[id].deleted

\* C9: once the replicas have stopped editing, hold no unresolved conflict
\* and have synced until merge syncs change nothing, every replica holds
\* the same rows as the server store
C9_QuiescentReplicasConverged ==
    Quiescent => \A r \in Replicas : SameAsServer(r)

\* C10: a merge sync that follows a completed merge sync of the same
\* replica, with no UI write on the replica and no change of the server
\* store by others since, changes neither the replica's rows nor LastSync
C10_SecondSyncChangesNothing ==
    [][\A r \in Replicas : (stable[r] /\ pc'[r] # pc[r]) =>
        /\ locProjects'[r] = locProjects[r]
        /\ locTasks'[r] = locTasks[r]
        /\ lastSync'[r] = lastSync[r]
    ]_vars

\* a second merge sync has reached its pull response on a replica that
\* holds a task and has pulled before
C10_Witness ==
    \E r \in Replicas :
        /\ stable[r]
        /\ pc[r] = "pull_wait"
        /\ lastSync[r] > 0
        /\ locTasks[r] # EmptyTable

\* C11: when a pull response is applied, every task item in it with
\* deleted = true leaves a local row with that id that is marked deleted,
\* whether the row existed before or not
C11_PulledDeletionApplied ==
    [][\A r \in Replicas : (pc[r] = "pull_wait" /\ pc'[r] = "idle") =>
        \A k \in 1..Len(pullResp[r].items) :
            LET it == pullResp[r].items[k]
            IN (it.type = "task" /\ it.deleted) =>
                /\ it.client_id \in DOMAIN locTasks'[r]
                /\ locTasks'[r][it.client_id].deleted_at
    ]_vars

\* the goroutines of the auto-sync loop: pollLoop and the debounce timers
LoopGoroutines == Timers \cup {"poll"}

\* a goroutine of the loop gets into Client.Sync and the sync begins
LoopSyncStart(g) == g \in LoopGoroutines /\ gpc[g] = "call" /\ gpc'[g] = "run"

\* C12: at no point are two sync executions of the replica in flight at
\* once, whether begun by a debounce timer, by the poll tick or by
\* SyncNowIfPending
C12_OneSyncInFlight ==
    Cardinality({g \in Goroutines : gpc[g] = "run"}) <= 1

\* C13: from the trigger that sets pending until its timer fires there is
\* exactly one debounce timer, also with SyncNowIfPending called in
\* between: never two debounce timers wait at once
C13_OneDebounceTimer ==
    Cardinality({g \in Timers : gpc[g] = "wait"}) <= 1

\* C14: the auto-sync loop begins a sync only when at least debounce_delay
\* has passed since it began the one before
C14_OneSyncPerWindow ==
    [][\A g \in Goroutines : LoopSyncStart(g) => sinceStart >= DebounceTime
    ]_vars

\* C15: once Stop has closed stopCh, neither pollLoop nor a debounce
\* timer begins a sync
C15_NoSyncAfterStop ==
    [][\A g \in Goroutines : LoopSyncStart(g) => ~stopCh]_vars

\* C16: the auto-sync loop begins a sync only while logged in with the
\* initial sync completed; HasSyncedOnce turns true only at the successful
\* return of a Sync call; every login and every logout leaves it false
C16_AutoSyncGated ==
    [][/\ \A g \in Goroutines : LoopSyncStart(g) => (token /\ hasSyncedOnce)
       /\ (~hasSyncedOnce /\ hasSyncedOnce') =>
              /\ op' = "SyncReturn"
              /\ \E g \in Goroutines : gpc[g] = "run" /\ gpc'[g] # "run"
       /\ op' \in {"Register", "Login", "VerifyMagicLink", "CliLogout",
                   "handleLogout"} => ~hasSyncedOnce'
    ]_vars

\* the loop reached Client.Sync after a logout in the terminal UI and was
\* turned away
C16_Witness ==
    /\ op = "SyncEnter"
    /\ tui
    /\ ~token
    /\ \A g \in Goroutines : gpc[g] # "run"

\* replica r hands a push batch to the server in a merge sync
MergePushStep(r) == pc[r] = "idle" /\ pc'[r] = "push_wait"

\* C17: after keep-local was applied to a conflict on a row, the next merge
\* sync of the replica pushes the row and the server accepts it (the row is
\* in updated and not in conflicts), provided the server's row was not
\* written since
C17_KeptLocalIsAccepted ==
    [][\A r \in Replicas : MergePushStep(r) =>
        \A k \in keptLocal[r] :
            ServerVersionOf(k.type, k.client_id) = k.version =>
                /\ ItemIn(pushResp'[r].updated, k.type, k.client_id)
                /\ ~ItemIn(pushResp'[r].conflicts, k.type, k.client_id)
    ]_vars

\* replica r applies keep-server to the first of its conflicts
KeepServerStep(r) ==
    /\ op' = "KeepServer"
    /\ conflicts[r] # << >>
    /\ conflicts'[r] # conflicts[r]

\* C18: after keep-server on conflict c the local row c.client_id is clean
\* with sync_version = c.server_version and has the fields and the deleted
\* flag of c.server_data, whether it was active, soft-deleted or absent
C18_KeepServerTakesServerRow ==
    [][\A r \in Replicas : KeepServerStep(r) =>
        LET c == Head(conflicts[r])
            item == c.server_data
            id == c.client_id
        IN /\ c.type = "task" =>
                /\ id \in DOMAIN locTasks'[r]
                /\ locTasks'[r][id].sync_version = c.server_version
                /\ locTasks'[r][id].project_id = item.project_id
                /\ locTasks'[r][id].content =
                        UnmarshalContent(B64Decode(item.encrypted_content))
                /\ locTasks'[r][id].status = item.status
                /\ locTasks'[r][id].priority = item.priority
                /\ locTasks'[r][id].due_date = item.due_date
                /\ locTasks'[r][id].deleted_at = item.deleted
           /\ c.type = "project" =>
                /\ id \in DOMAIN locProjects'[r]
                /\ locProjects'[r][id].sync_version = c.server_version
                /\ locProjects'[r][id].slug = item.slug
                /\ locProjects'[r][id].name = item.name
                /\ locProjects'[r][id].deleted_at = item.deleted
    ]_vars

\* a force-pull sync of replica r returns, with no UI write on r since it
\* began and the server store as it was when the pull was served
ForcePullReturn(r) ==
    /\ pc[r] = "rl_pull_wait"
    /\ pc'[r] = "idle"
    /\ quiet[r]
    /\ fresh[r]

\* C19: a force-pull sync sends no push request, and when it returns the
\* local store holds exactly the server's rows, each clean with the
\* server's version, fields and deleted flag, and LastSync is the highest
\* version the server returned
C19_ForcePullMirrorsServer ==
    [][\A r \in Replicas :
        /\ pc[r] \in {"rl_pull", "rl_pull_wait"} =>
                /\ pc'[r] \in {"rl_pull", "rl_pull_wait", "idle"}
                /\ pushResp'[r] = pushResp[r]
        /\ ForcePullReturn(r) =>
            /\ DOMAIN locProjects'[r] = DOMAIN srvProjects
            /\ \A id \in DOMAIN srvProjects :
                /\ locProjects'[r][id].sync_version
                        = srvProjects[id].sync_version
                /\ locProjects'[r][id].slug = srvProjects[id].slug
                /\ locProjects'[r][id].name = srvProjects[id].name
                /\ locProjects'[r][id].deleted_at = srvProjects[id].deleted
            /\ DOMAIN locTasks'[r] = DOMAIN srvTasks
            /\ \A id \in DOMAIN srvTasks :
                /\ locTasks'[r][id].sync_version = srvTasks[id].sync_version
                /\ locTasks'[r][id].project_id = srvTasks[id].project_id
                /\ JsonContent(locTasks'[r][id].content)
                        = srvTasks[id].encrypted_content
                /\ locTasks'[r][id].status = srvTasks[id].status
                /\ locTasks'[r][id].priority = srvTasks[id].priority
                /\ locTasks'[r][id].due_date = srvTasks[id].due_date
                /\ locTasks'[r][id].deleted_at = srvTasks[id].deleted
            /\ lastSync'[r] = Max(MaxSyncVersion(srvProjects),
                                  MaxSyncVersion(srvTasks))
    ]_vars

\* a force-push sync of replica r returns (after the push response, or
\* after ClearRemote when no row is dirty), with no UI write on r and no
\* push of another replica since it began
ForcePushReturn(r) ==
    /\ pc[r] \in {"fp_push", "fp_push_wait"}
    /\ pc'[r] = "idle"
    /\ quiet[r]
    /\ alone[r]

\* C20: when a force-push sync returns, the server holds exactly the local
\* rows of the replica, those that were clean before as well as the dirty
\* ones, with the local fields, and no other row
C20_ForcePushMirrorsLocal ==
    [][\A r \in Replicas : ForcePushReturn(r) => SameAsServer(r)']_vars

\* a push request of a merge sync of replica r fails
PushFailStep(r) ==
    /\ pc[r] \in {"idle", "push_wait"}
    /\ result'[r].Err
    /\ result'[r] # result[r] \/ pc'[r] # pc[r]

\* C21: when the push request of a merge sync fails, Sync returns an error,
\* no pull is attempted (Sync is back at rest, no pull response is
\* outstanding), and the local rows with their dirty flags, LastSync and
\* HasSyncedOnce are as before
C21_FailedPushChangesNothing ==
    [][\A r \in Replicas : PushFailStep(r) =>
            /\ pc'[r] = "idle"
            /\ pullResp' = pullResp
            /\ locProjects' = locProjects
            /\ locTasks' = locTasks
            /\ lastSync' = lastSync
            /\ hasSyncedOnce' = hasSyncedOnce]_vars

\* a sync has failed on a push that the server had accepted: the row is on
\* the server and still dirty locally
C21_Witness ==
    \E r \in Replicas, id \in TaskIds :
        /\ pc[r] = "idle"
        /\ result[r].Err
        /\ id \in DOMAIN locTasks[r]
        /\ Dirty(locTasks[r][id])
        /\ id \in DOMAIN srvTasks
        /\ id \in unacked[r]

\* a Sync call of goroutine g returns after a 401 answer
UnauthorizedStep(g) ==
    gpc[g] = "run" /\ gpc'[g] # "run" /\ op' = "SyncUnauthorized"

\* C22: when a sync request was answered with 401, the replica is logged
\* out as the failed Sync returns: the session token is gone and the
\* auto-sync loop is no longer allowed to sync
C22_UnauthorizedLogsOut ==
    [][\A g \in Goroutines : UnauthorizedStep(g) =>
            ~IsLoggedIn' /\ ~CanAutoSync']_vars

\* C23: whenever no Sync call of a replica is under way, its local store
\* holds a project with id inbox that is not deleted
C23_InboxAlwaysPresent ==
    \A r \in Replicas :
        pc[r] = "idle" => GetProject(locProjects[r], "inbox")

\* the orderings of the items of a response
Reorderings(items) ==
    LET n == Len(items)
        bijections == {f \in [1..n -> 1..n] :
                            \A i, j \in 1..n : f[i] = f[j] => i = j}
    IN {[i \in 1..n |-> items[f[i]]] : f \in bijections}

\* replica r applies a pull response and Sync returns
PullApplyStep(r) ==
    pc[r] \in {"pull_wait", "rl_pull_wait"} /\ pc'[r] = "idle"

\* C24: the local store after a pull response was applied is the one that
\* applying the items of the response in any other order yields
C24_PullOrderIrrelevant ==
    [][\A r \in Replicas : PullApplyStep(r) =>
            \A items \in Reorderings(pullResp[r].items) :
                LET db == applyPulled([projects |-> locProjects[r],
                                       tasks |-> locTasks[r]], items,
                                      FormatRFC3339(now))
                IN /\ db.projects = locProjects'[r]
                   /\ db.tasks = locTasks'[r]]_vars

\* project id of the store has a task that is neither done nor deleted
HasActiveTask(tasks, id) ==
    \E x \in DOMAIN tasks :
        /\ tasks[x].project_id = id
        /\ tasks[x].status # "done"
        /\ ~tasks[x].deleted_at

\* C25: no step changes a project that is not deleted while an active task
\* of the same store references it: the row stays as it is, not deleted,
\* with its dirty flag and updated_at
C25_ReferencedProjectNotDeleted ==
    [][\A r \in Replicas, id \in ProjectIds :
            (GetProject(locProjects[r], id) /\ HasActiveTask(locTasks[r], id))
            => /\ id \in DOMAIN locProjects'[r]
               /\ locProjects'[r][id] = locProjects[r][id]]_vars

\* replica r resolves the head conflict with keep-local or keep-server
ResolveStep(r) ==
    /\ conflicts[r] # << >>
    /\ conflicts'[r] # conflicts[r]
    /\ op' \in {"KeepLocal", "KeepServer"}

\* C26: each keep-local or keep-server removes exactly the head of the
\* queue, and when the last conflict is resolved while some conflict of the
\* queue was resolved with keep-local, a debounced sync is requested
\* (AutoSync.pending is set), whichever choice came last
C26_EmptyQueueRequestsSync ==
    [][ResolveStep(AutoReplica) =>
            /\ conflicts'[AutoReplica] = Tail(conflicts[AutoReplica])
            /\ (conflicts'[AutoReplica] = << >>
                /\ keptLocal'[AutoReplica] # {}) => pending']_vars

\* replica r ignores a conflict (q / esc in the conflict dialog)
IgnoreStep(r) ==
    /\ conflicts[r] # << >>
    /\ conflicts'[r] # conflicts[r]
    /\ op' = "IgnoreConflicts"

\* C27: ignoring removes the head conflict only: the conflicts queued
\* behind it stay, and no local row changes
C27_IgnoreDropsOneConflict ==
    [][\A r \in Replicas : IgnoreStep(r) =>
            /\ conflicts'[r] = Tail(conflicts[r])
            /\ locProjects' = locProjects
            /\ locTasks' = locTasks]_vars

\* C28: however the upserts of concurrent pushes interleave, no two task
\* rows of the server carry the same sync_version
C28_UpsertVersionsDistinct ==
    \A x, y \in DOMAIN srvTasks :
        x # y => srvTasks[x].sync_version # srvTasks[y].sync_version

\* the largest sync_version among the items, or since when there is none
LargestVersion(items, since) ==
    IF items = << >> THEN since
    ELSE LET vs == {items[i].sync_version : i \in 1..Len(items)}
         IN CHOOSE v \in vs : \A w \in vs : w <= v

\* the steps of the pull of a merge sync of replica r: the server answers,
\* the response is applied and Sync returns, the pull fails
PullServeStep(r) == pc[r] = "pull" /\ pc'[r] = "pull_wait"
PullSuccessStep(r) ==
    /\ pc[r] = "pull_wait"
    /\ pc'[r] = "idle"
    /\ ~result'[r].Err
    /\ pullResp'[r] = NoPullResp
    /\ budget' = budget
PullFailStep(r) ==
    pc[r] \in {"pull", "pull_wait"} /\ pc'[r] = "idle" /\ result'[r].Err

DebounceSkipped(g) ==
    /\ gpc[g] = "fired"
    /\ busyAt[g]
    /\ syncing
    /\ gpc'[g] = "none"
    /\ tui'

\* C30: a trigger that came while a sync was in flight is kept when its
\* debounce timer finds that sync still running: a debounced sync stays
\* requested (pending) for after the sync in flight
C30_TriggerNotLost ==
    [][\A g \in Timers : DebounceSkipped(g) => pending']_vars

\* replica r holds project id with writes that were not pushed yet
DirtyProject(r, id) ==
    id \in DOMAIN locProjects[r] /\ Dirty(locProjects[r][id])

\* the push of replica r's row of project id was answered: the row carries
\* the version the server assigned, or the last push reported it as a
\* conflict
ProjectSettled(r, id) ==
    \/ id \in DOMAIN locProjects[r] /\ ~Dirty(locProjects[r][id])
    \/ ItemIn(result[r].Conflicts, "project", id)

\* C31: while merge syncs keep running and the server answers, every
\* project row that is dirty is eventually acknowledged with a version of
\* the server or reported as a conflict
C31_DirtyRowsSettle ==
    \A r \in Replicas :
        DirtyProject(r, WorkId(r)) ~> ProjectSettled(r, WorkId(r))

\* the items of replica r's push batch whose client_updated_at is missing
\* or is not a time: the handler's clientTime stays at the zero time
ZeroTimeItems(r) ==
    LET items == pushItems(locProjects[r], locTasks[r])
    IN {items[k] : k \in {j \in 1..Len(items) :
                    IsZero(ParseClientTime(items[j].client_updated_at))}}

\* C32: a push item without a client_updated_at is never reported as a
\* conflict, whatever the server row's timestamp: it is upserted and is
\* returned in updated
C32_ZeroTimeNeverConflicts ==
    [][\A r \in Replicas : MergePushStep(r) =>
        \A item \in ZeroTimeItems(r) :
            /\ ~ItemIn(pushResp'[r].conflicts, item.type, item.client_id)
            /\ ItemIn(pushResp'[r].updated, item.type, item.client_id)
    ]_vars

\* the items of replica r's push batch whose client_updated_at is present
\* and is not an RFC3339 time
BadTimeItems(r) ==
    {item \in ZeroTimeItems(r) : item.client_updated_at # ZeroTime}

\* C33: a push item with a bad timestamp is skipped: it is in neither
\* updated nor conflicts and its server row is left as it was
C33_BadItemSkipped ==
    [][\A r \in Replicas : MergePushStep(r) =>
        \A item \in BadTimeItems(r) :
            /\ ~ItemIn(pushResp'[r].updated, item.type, item.client_id)
            /\ ~ItemIn(pushResp'[r].conflicts, item.type, item.client_id)
            /\ item.type = "project" =>
                    IF item.client_id \in DOMAIN srvProjects
                    THEN srvProjects'[item.client_id]
                            = srvProjects[item.client_id]
                    ELSE item.client_id \notin DOMAIN srvProjects'
    ]_vars

\* C34: when the Client.Sync called by doSync returns, lastError is its
\* error (nil on success); the pull callback is invoked exactly when the
\* sync succeeded with something pulled, the conflict callback (with the
\* list) exactly when it succeeded with conflicts; a doSync that skips
\* invokes neither
DoSyncReturns(g) == gpc[g] = "run" /\ gpc'[g] # "run"
DoSyncSkips(g) == gpc[g] = "fired" /\ gpc'[g] = Finished(g)
C34_CallbacksOnSuccess ==
    [][\A g \in LoopGoroutines :
        LET res == result[AutoReplica]
        IN /\ DoSyncSkips(g) => outbox' = outbox
           /\ DoSyncReturns(g) =>
                /\ outbox'.lastError = res.Err
                /\ IF ~res.Err /\ res.Pulled > 0
                   THEN outbox'.refresh
                   ELSE outbox'.refresh = outbox.refresh
                /\ IF ~res.Err /\ res.Conflicts # << >>
                   THEN outbox'.conflicts = res.Conflicts
                   ELSE outbox'.conflicts = outbox.conflicts]_vars
\* a sync of the loop came back with rows pulled and with conflicts
C34_Witness ==
    /\ op = "SyncReturn"
    /\ outbox.refresh
    /\ outbox.conflicts # << >>
    /\ ~outbox.lastError

\* C35: a push or pull whose answer does not come back as a usable
\* response ends the sync with an error, with no sync version written to a
\* local row and LastSync as it was
ResponseFails(r) ==
    /\ pc[r] \in {"push_wait", "pull_wait"}
    /\ pc'[r] # pc[r]
    /\ budget'.fails < budget.fails
C35_BadBodyIsError ==
    [][\A r \in Replicas :
        ResponseFails(r) =>
            /\ pc'[r] = "idle"
            /\ result'[r].Err
            /\ locProjects'[r] = locProjects[r]
            /\ locTasks'[r] = locTasks[r]
            /\ lastSync'[r] = lastSync[r]]_vars

\* C36: the inbox row as the migrations seeded it (its updated_at is still
\* the one datetime('now') wrote) is clean: GetProjectsToSync does not
\* return it, so no push carries it
SeededInbox(r) ==
    /\ "inbox" \in DOMAIN locProjects[r]
    /\ locProjects[r]["inbox"].updated_at = SqliteNow
    /\ locProjects[r]["inbox"].slug = "inbox"
C36_InboxSeededClean ==
    \A r \in Replicas :
        SeededInbox(r) =>
            /\ ~Dirty(locProjects[r]["inbox"])
            /\ ~ItemIn(pushItems(locProjects[r], locTasks[r]),
                       "project", "inbox")

\* replica r holds the server row: a local row of that id with the server
\* row's version, or a dirty one
HoldsRow(local, id, version) ==
    /\ id \in DOMAIN local
    /\ \/ local[id].sync_version = version
       \/ Dirty(local[id])

\* C37: every server row whose sync_version is at most a replica's LastSync
\* is held by the replica at that version, or as a dirty row
C37_WatermarkSound ==
    \A r \in Replicas :
        /\ \A id \in DOMAIN srvProjects :
                srvProjects[id].sync_version <= lastSync[r] =>
                    HoldsRow(locProjects[r], id, srvProjects[id].sync_version)
        /\ \A id \in DOMAIN srvTasks :
                srvTasks[id].sync_version <= lastSync[r] =>
                    HoldsRow(locTasks[r], id, srvTasks[id].sync_version)

\* the rows of user q in a server table, and their versions
RowsOf(table, q) ==
    [k \in {x \in DOMAIN table : x[1] = q} |-> table[k]]
OwnVersions(q) ==
    {srvProjects[k].sync_version :
        k \in {x \in DOMAIN srvProjects : x[1] = q}}
    \cup {srvTasks[k].sync_version :
            k \in {x \in DOMAIN srvTasks : x[1] = q}}
    \cup {0}

ConflictsArrive(r) ==
    /\ result[r].Conflicts # << >>
    /\ result'[r].Conflicts = << >>
    /\ conflicts'[r] = result[r].Conflicts
\* the conflict c is in the queue
Queued(queue, c) ==
    \E k \in 1..Len(queue) :
        /\ queue[k].type = c.type
        /\ queue[k].client_id = c.client_id

\* C39: when a new conflict list arrives, every conflict that was queued
\* and not resolved is still queued: the new queue holds it
C39_QueuedConflictsKept ==
    [][\A r \in Replicas :
        ConflictsArrive(r) =>
            \A k \in 1..Len(conflicts[r]) :
                Queued(conflicts'[r], conflicts[r][k])]_vars

\* C40: syncing is set only while a doSync of the loop is between its
\* guard and its return, and every return of a doSync, with or without an
\* error, leaves it cleared
C40_SyncingOnlyDuringDoSync ==
    /\ syncing => \E g \in LoopGoroutines : gpc[g] \in {"call", "run"}
    /\ (op \in {"SyncReturn", "SyncFailed", "SyncUnauthorized"}
            /\ \A g \in LoopGoroutines : gpc[g] \notin {"call", "run"})
        => ~syncing
\* a sync of the loop has failed, and a later one of the loop is under way
C40_Witness ==
    /\ outbox.lastError
    /\ syncing
    /\ \E g \in LoopGoroutines : gpc[g] = "run"

====
